---------------------------- MODULE Spec2Model ----------------------------
(***************************************************************************)
(* A model of the nbody-wars simulation engine (src/engine).               *)
(*                                                                         *)
(* Quantisation.  The engine computes in 32-bit floats.  SpecBounce takes  *)
(* the two bounce handlers in exact rationals; Spec and SpecBatch take the *)
(* whole engine in integers:                                               *)
(*   - lengths are whole world units, velocities whole units per second,   *)
(*     divisions round toward zero (SDiv) and square roots round down      *)
(*     (ISqrt);                                                            *)
(*   - time is counted in tenths of a second, one tick lasting DtTenths;   *)
(*   - angles are whole quarter turns (0 = +x, 1 = +y, 2 = -x, 3 = -y);    *)
(*   - the two pseudo-random streams (the engine's std::mt19937 and the C  *)
(*     library's rand()) are small linear congruential generators.         *)
(* Fields that no operation reads back (Body::acc, Ship::thrusting, the    *)
(* asteroid's rotation, a particle's position and velocity) are not kept;  *)
(* the random draws made for them are still consumed.                      *)
(***************************************************************************)
EXTENDS Integers, Sequences, FiniteSets, TLC

\* ------------------------------------------------------------------ bounds
WorldWidth  == 200   \* engine_create(width, ...)
WorldHeight == 200   \* engine_create(..., height, ...)
DtTenths    == 10    \* length of one tick, in tenths of a second
RngMod      == 101   \* modulus of the two stand-in generators
MaxTicks    == 4     \* step() calls explored per behaviour
MaxCalls    == 1     \* configuration / reset calls explored per behaviour

\* ------------------------------------------------------ program constants
ShipRadius         == 10     \* Ship::Ship
ShipLives          == 3      \* Ship::init
InvulnerableTenths == 30     \* 3.0 s
ShootCooldownTenths == 2     \* 0.2 s
BulletRadius       == 2      \* Bullet::Bullet
BulletLifeTenths   == 30     \* maxLifetime = 3.0 s
BulletSpeed        == 300
BulletMuzzle       == 5
ThrustPower        == 500
TerminalSize       == 5      \* the dust class
ScorePerHit        == 10
BhMargin           == 100    \* BlackHole::isOffscreen
BhSpawnOffset      == 50
DefaultShipMass    == 1500
DefaultBulletMass  == 100
DefaultAsteroidBaseMass == 8000
DefaultAsteroidCount == 4
DefaultBhAccRadius == 25
GravG              == 100    \* PhysicsConfig::G
GravEps            == 5      \* PhysicsConfig::epsilon

\* ------------------------------------------------------------- arithmetic
Abs(x) == IF x < 0 THEN -x ELSE x

Max(a, b) == IF a >= b THEN a ELSE b

\* float division, rounded toward zero (b > 0)
SDiv(a, b) == IF a >= 0 THEN a \div b ELSE -((-a) \div b)

\* the largest power of two r with r * r <= n
RECURSIVE ISqrtLow(_, _)
ISqrtLow(n, r) == IF 2 * r > n \div (2 * r) THEN r ELSE ISqrtLow(n, 2 * r)

\* Newton's iteration down from x >= sqrt(n)
RECURSIVE ISqrtFrom(_, _)
ISqrtFrom(n, x) ==
  IF (x + n \div x) \div 2 >= x THEN x ELSE ISqrtFrom(n, (x + n \div x) \div 2)

\* std::sqrt, rounded down
ISqrt(n) == IF n <= 0 THEN 0 ELSE ISqrtFrom(n, 2 * ISqrtLow(n, 1))

Pow2(k) == IF k = 0 THEN 1 ELSE IF k = 1 THEN 2 ELSE IF k = 2 THEN 4
           ELSE IF k = 3 THEN 8 ELSE IF k = 4 THEN 16 ELSE 32

\* ------------------------------------------------------------------ Vec2
VAdd(a, b) == <<a[1] + b[1], a[2] + b[2]>>

VSub(a, b) == <<a[1] - b[1], a[2] - b[2]>>

VScale(a, s) == <<a[1] * s, a[2] * s>>

VDiv(a, s) == <<SDiv(a[1], s), SDiv(a[2], s)>>

Dot(a, b) == a[1] * b[1] + a[2] * b[2]

LengthSquared(a) == Dot(a, a)

Length(a) == ISqrt(LengthSquared(a))

\* (cos, sin) of an angle given in quarter turns
Direction(q) == IF q % 4 = 0 THEN <<1, 0>> ELSE IF q % 4 = 1 THEN <<0, 1>>
                ELSE IF q % 4 = 2 THEN <<-1, 0>> ELSE <<0, -1>>

\* x * dt and x * dt / 2 with dt = DtTenths / 10 seconds
MulDt(x) == SDiv(x * DtTenths, 10)

MulHalfDt(x) == SDiv(x * DtTenths, 20)

\* ------------------------------------------------- periodic boundary utils
\* the minimum image with the half-extent itself folded to the other side
minimumImageHalfOpen(dr, w, h) ==
  LET x1 == IF 2 * dr[1] >= w THEN dr[1] - w ELSE dr[1]
      x2 == IF 2 * x1 < -w THEN x1 + w ELSE x1
      y1 == IF 2 * dr[2] >= h THEN dr[2] - h ELSE dr[2]
      y2 == IF 2 * y1 < -h THEN y1 + h ELSE y1
  IN  <<x2, y2>>

minimumImage(dr, w, h) ==
  LET x1 == IF 2 * dr[1] > w THEN dr[1] - w ELSE dr[1]
      x2 == IF 2 * x1 < -w THEN x1 + w ELSE x1
      y1 == IF 2 * dr[2] > h THEN dr[2] - h ELSE dr[2]
      y2 == IF 2 * y1 < -h THEN y1 + h ELSE y1
  IN  <<x2, y2>>

\* while (x < 0) x += extent
RECURSIVE WrapUp(_, _)
WrapUp(x, extent) == IF x < 0 THEN WrapUp(x + extent, extent) ELSE x

\* while (x >= extent) x -= extent
RECURSIVE WrapDown(_, _)
WrapDown(x, extent) == IF x >= extent THEN WrapDown(x - extent, extent) ELSE x

\* the wrap with each loop run at most once
wrapPositionOnce(pos, w, h) ==
  LET x1 == IF pos[1] < 0 THEN pos[1] + w ELSE pos[1]
      y1 == IF pos[2] < 0 THEN pos[2] + h ELSE pos[2]
  IN  <<IF x1 >= w THEN x1 - w ELSE x1, IF y1 >= h THEN y1 - h ELSE y1>>

wrapPosition(pos, w, h) ==
  <<WrapDown(WrapUp(pos[1], w), w), WrapDown(WrapUp(pos[2], h), h)>>


\* ------------------------------------------------------- random generators
\* one draw of the engine's generator (std::mt19937 rng): the next state,
\* which is also the value drawn
RngStep(s) == (s * 27 + 11) % RngMod

\* the C library's generator, never seeded by the engine, starts as after
\* srand(1)
CRandSeed == 1

\* one draw of the C library's generator (rand())
CRandStep(s) == (s * 8 + 5) % RngMod

\* n draws of rand() as one affine map x -> (a * x + c) % RngMod, built by
\* squaring from the map of one draw (CRandStep)
RECURSIVE CRandMap(_)
CRandMap(n) ==
  IF n = 0 THEN [a |-> 1, c |-> 0]
  ELSE LET h == CRandMap(n \div 2)
           sq == [a |-> (h.a * h.a) % RngMod, c |-> (h.a * h.c + h.c) % RngMod]
       IN  IF n % 2 = 0 THEN sq
           ELSE [a |-> (CRandStep(sq.a) - CRandStep(0)) % RngMod,
                 c |-> CRandStep(sq.c)]

\* the generator state after n draws of rand() from s
CRandSkip(s, n) == (CRandMap(n).a * s + CRandMap(n).c) % RngMod

\* GameEngine::randomFloat(lo, hi) on the draw d: lo + (hi - lo) * d / RngMod
randomFloat(d, lo, hi) == lo + ((hi - lo) * d) \div RngMod

\* GameEngine::randomEdgePosition: one draw for the edge, one for the place
randomEdgePosition(s) ==
  LET d1 == RngStep(s)
      d2 == RngStep(d1)
      edge == d1 % 4
  IN  [rng |-> d2,
       pos |-> IF edge = 0 THEN <<randomFloat(d2, 0, WorldWidth), 0>>
               ELSE IF edge = 1 THEN <<WorldWidth, randomFloat(d2, 0, WorldHeight)>>
               ELSE IF edge = 2 THEN <<randomFloat(d2, 0, WorldWidth), WorldHeight>>
               ELSE <<0, randomFloat(d2, 0, WorldHeight)>>]

\* GameEngine::randomVelocity: the angle is drawn in [0, 2 pi) and kept to
\* the quarter turn
randomVelocity(s, speed) ==
  LET d == RngStep(s)
  IN  [rng |-> d, vel |-> VScale(Direction(randomFloat(d, 0, 4)), speed)]

\* --------------------------------------------------------------- entities
\* the radius lookup of Asteroid::init (default branch: 30)
AsteroidRadius(size) ==
  IF size = 0 THEN 40 ELSE IF size = 1 THEN 25 ELSE IF size = 2 THEN 15
  ELSE IF size = 3 THEN 10 ELSE IF size = 4 THEN 6 ELSE IF size = 5 THEN 3
  ELSE 30

\* a mass that does not halve with the size class
AsteroidMassFlat(size, baseMass) == baseMass

\* the mass switch of Asteroid::init (default branch: 0.75 * baseMass)
AsteroidMass(size, baseMass) ==
  IF size \in 0..5 THEN SDiv(baseMass, Pow2(size)) ELSE SDiv(3 * baseMass, 4)

\* Ship::Ship followed by Ship::init(id, position, player)
ShipInit(id, position, player) ==
  [id |-> id, pos |-> position, vel |-> <<0, 0>>, mass |-> DefaultShipMass,
   active |-> TRUE, wraps |-> TRUE, playerId |-> player, angle |-> 3,
   radius |-> ShipRadius, lives |-> ShipLives, score |-> 0,
   invulnerable |-> TRUE, invulnerableTime |-> InvulnerableTenths,
   shootCooldown |-> 0]

\* Asteroid::Asteroid followed by Asteroid::init
AsteroidInit(entityId, position, velocity, asteroidSize, baseMass) ==
  [id |-> entityId, pos |-> position, vel |-> velocity,
   mass |-> AsteroidMass(asteroidSize, baseMass), active |-> TRUE,
   wraps |-> TRUE, radius |-> AsteroidRadius(asteroidSize),
   size |-> asteroidSize]

\* Bullet::Bullet followed by Bullet::init
BulletInit(entityId, position, velocity, player) ==
  [id |-> entityId, pos |-> position, vel |-> velocity,
   mass |-> DefaultBulletMass, active |-> TRUE, wraps |-> TRUE,
   playerId |-> player, lifetime |-> BulletLifeTenths,
   radius |-> BulletRadius]

\* BlackHole::BlackHole followed by BlackHole::init
BlackHoleInit(entityId, position, velocity, bhMass, bhAccretionRadius) ==
  [id |-> entityId, pos |-> position, vel |-> velocity, mass |-> bhMass,
   active |-> TRUE, wraps |-> FALSE, accretionRadius |-> bhAccretionRadius]

\* Particle::Particle, Particle::init and the lifetime set by createExplosion
\* (maxLifetime = 1.0 s times the multiplier, here in tenths)
ParticleInit(lifeTenths, particlePlayerId) ==
  [lifetime |-> lifeTenths, playerId |-> particlePlayerId, active |-> TRUE]

\* BlackHole::isOffscreen
isOffscreen(bh) ==
  \/ bh.pos[1] < -BhMargin
  \/ bh.pos[1] > WorldWidth + BhMargin
  \/ bh.pos[2] < -BhMargin
  \/ bh.pos[2] > WorldHeight + BhMargin

\* ------------------------------------------------------------ std::vector
\* capacity after a push_back onto a vector of the given size and capacity
\* (geometric growth by doubling)
PushCap(size, cap) == IF size < cap THEN cap ELSE IF cap = 0 THEN 1 ELSE 2 * cap

\* ---------------------------------------------------------- configuration
DefaultDifficulty ==
  [bhSpawnRate |-> 5,            \* in 1/10000 per frame
   bhMassMult |-> 10,            \* in tenths
   bhAccRadius |-> DefaultBhAccRadius,
   bhEnabled |-> TRUE,
   shipMass |-> DefaultShipMass,
   bulletMass |-> DefaultBulletMass,
   asteroidBaseMass |-> DefaultAsteroidBaseMass,
   asteroidCount |-> DefaultAsteroidCount]

NoInput == [left |-> FALSE, right |-> FALSE, thrust |-> FALSE,
            brake |-> FALSE, shoot |-> FALSE]

\* the values the model passes to the engine's entry points
SeedChoices == {1, 2}

ModeChoices == {"SOLO", "COOP", "VERSUS"}

LevelChoices == {0, 1}

DifficultyChoices ==
  {DefaultDifficulty,
   [bhSpawnRate |-> 10000, bhMassMult |-> 10, bhAccRadius |-> 60,
    bhEnabled |-> TRUE, shipMass |-> 1500, bulletMass |-> 100,
    asteroidBaseMass |-> 1600, asteroidCount |-> 0]}

MassChoices == {3200}

InputChoices ==
  {[left |-> FALSE, right |-> FALSE, thrust |-> FALSE, brake |-> FALSE, shoot |-> TRUE],
   [left |-> TRUE, right |-> FALSE, thrust |-> TRUE, brake |-> FALSE, shoot |-> TRUE],
   [left |-> FALSE, right |-> TRUE, thrust |-> FALSE, brake |-> TRUE, shoot |-> FALSE]}

PlayerIdChoices == {-1, 0, 1, 2}

\* ------------------------------------------------------------------ state
VARIABLES
  ships, asteroids, bullets, blackHoles, particles,  \* entity collections
  asteroidsCap,      \* capacity of the asteroids vector
  time,              \* elapsed simulation time, in tenths of a second
  wave, seed, rng, crand, mode, currentLevel, difficulty, inputs,
  nextEntityId,
  pc,                \* "idle" between calls, "collide" inside handleCollisions
  collisions,        \* the pairs of the running batch still to resolve
  freed,             \* the asteroid buffer the batch's pairs point into, once
                     \* a push_back has reallocated the vector (else << >>)
  handled,           \* history, for the properties below: what the last
                     \* iteration or sweep did, the bodies of its pair as
                     \* they were in the collections before it, and the
                     \* pairs of the batch a handler has run for (log)
  ticks, calls       \* step() calls and other calls made so far

vars == <<ships, asteroids, bullets, blackHoles, particles, asteroidsCap,
          time, wave, seed, rng, crand, mode, currentLevel, difficulty,
          inputs, nextEntityId, pc, collisions, freed, handled, ticks, calls>>

NoHandled == [kind |-> "none", log |-> <<>>]

\* ------------------------------------------------------- spawn operations
\* GameEngine::spawnAsteroid on e = [asteroids, cap, rng, crand, nextId]
\* with the position and velocity already drawn
spawnAsteroid(e, pos, vel, size, baseMass) ==
  [e EXCEPT !.asteroids = Append(@, AsteroidInit(e.nextId, pos, vel, size, baseMass)),
            !.cap = PushCap(Len(e.asteroids), @),
            !.crand = CRandStep(@),
            !.nextId = @ + 1]

\* the loop of GameEngine::spawnInitialAsteroids, count iterations left
RECURSIVE spawnLoop(_, _, _, _)
spawnLoop(e, count, w, baseMass) ==
  IF count <= 0 THEN e
  ELSE LET p == randomEdgePosition(e.rng)
           v == randomVelocity(p.rng, 20 + w * 5)
       IN  spawnLoop(spawnAsteroid([e EXCEPT !.rng = v.rng], p.pos, v.vel, 0, baseMass),
                     count - 1, w, baseMass)

\* a wave of asteroidCount + wave asteroids
spawnInitialAsteroidsPerWave(e, w, diff) ==
  spawnLoop(e, diff.asteroidCount + w, w, diff.asteroidBaseMass)

\* GameEngine::spawnInitialAsteroids
spawnInitialAsteroids(e, w, diff) ==
  spawnLoop(e, diff.asteroidCount + w * 2, w, diff.asteroidBaseMass)

\* the ships GameEngine::reset creates
ResetShips(m, diff) ==
  [i \in 1..(IF m = "SOLO" THEN 1 ELSE 2) |->
     [ShipInit(i - 1, <<SDiv(WorldWidth * (3 + (i - 1) * 4), 10), SDiv(WorldHeight, 2)>>, i - 1)
        EXCEPT !.mass = diff.shipMass]]

\* GameEngine::reset: clear() keeps each vector's capacity
reset(m, diff, sd, cap, cr) ==
  spawnInitialAsteroids(
    [asteroids |-> <<>>, cap |-> cap, rng |-> sd, crand |-> cr,
     nextId |-> Len(ResetShips(m, diff))], 1, diff)

\* GameEngine::spawnBlackHole on the generator state s
spawnBlackHole(s, id, w, diff) ==
  LET d0 == RngStep(s)
      d1 == RngStep(d0)
      d2 == RngStep(d1)
      d3 == RngStep(d2)
      edge == d0 % 4
      pos == IF edge = 0 THEN <<randomFloat(d1, 0, WorldWidth), -BhSpawnOffset>>
             ELSE IF edge = 1 THEN <<WorldWidth + BhSpawnOffset, randomFloat(d1, 0, WorldHeight)>>
             ELSE IF edge = 2 THEN <<randomFloat(d1, 0, WorldWidth), WorldHeight + BhSpawnOffset>>
             ELSE <<-BhSpawnOffset, randomFloat(d1, 0, WorldHeight)>>
      vel == IF edge = 0 THEN <<randomFloat(d2, -50, 50), randomFloat(d3, 80, 150)>>
             ELSE IF edge = 1 THEN <<randomFloat(d2, -150, -80), randomFloat(d3, -50, 50)>>
             ELSE IF edge = 2 THEN <<randomFloat(d2, -50, 50), randomFloat(d3, -150, -80)>>
             ELSE <<randomFloat(d2, 80, 150), randomFloat(d3, -50, 50)>>
      mass == SDiv((5000 + w * 500) * diff.bhMassMult, 10)
  IN  [rng |-> d3, bh |-> BlackHoleInit(id, pos, vel, mass, diff.bhAccRadius)]

\* ------------------------------------------------------------------- Init
\* GameEngine::GameEngine(width, height, seed): SOLO, level 0, default
\* difficulty, then reset()
Init ==
  \E sd \in SeedChoices :
    LET e == reset("SOLO", DefaultDifficulty, sd, 0, CRandSeed)
    IN  /\ ships = ResetShips("SOLO", DefaultDifficulty)
        /\ asteroids = e.asteroids
        /\ asteroidsCap = e.cap
        /\ bullets = <<>>
        /\ blackHoles = <<>>
        /\ particles = <<>>
        /\ time = 0
        /\ wave = 1
        /\ seed = sd
        /\ rng = e.rng
        /\ crand = e.crand
        /\ mode = "SOLO"
        /\ currentLevel = 0
        /\ difficulty = DefaultDifficulty
        /\ inputs = <<NoInput, NoInput>>
        /\ nextEntityId = e.nextId
        /\ pc = "idle"
        /\ collisions = <<>>
        /\ freed = <<>>
        /\ handled = NoHandled
        /\ ticks = 0
        /\ calls = 0

\* ------------------------------------------------- configuration actions
CanCall == pc = "idle" /\ calls < MaxCalls

\* a reset that leaves the generator as it finds it instead of seeding it
DoResetUnseeded(m, diff) ==
  LET e == reset(m, diff, rng, asteroidsCap, crand)
  IN  /\ ships' = ResetShips(m, diff)
      /\ asteroids' = e.asteroids
      /\ asteroidsCap' = e.cap
      /\ bullets' = <<>>
      /\ blackHoles' = <<>>
      /\ particles' = <<>>
      /\ time' = 0
      /\ wave' = 1
      /\ rng' = e.rng
      /\ crand' = e.crand
      /\ nextEntityId' = e.nextId

\* the variables GameEngine::reset assigns, from the mode and difficulty
DoReset(m, diff) ==
  LET e == reset(m, diff, seed, asteroidsCap, crand)
  IN  /\ ships' = ResetShips(m, diff)
      /\ asteroids' = e.asteroids
      /\ asteroidsCap' = e.cap
      /\ bullets' = <<>>
      /\ blackHoles' = <<>>
      /\ particles' = <<>>
      /\ time' = 0
      /\ wave' = 1
      /\ rng' = e.rng
      /\ crand' = e.crand
      /\ nextEntityId' = e.nextId

Reset ==
  /\ CanCall
  /\ DoReset(mode, difficulty)
  /\ calls' = calls + 1
  /\ handled' = [kind |-> "reset", log |-> <<>>, call |-> calls + 1]
  /\ UNCHANGED <<seed, mode, currentLevel, difficulty, inputs, pc, collisions,
                 freed, ticks>>

SetMode ==
  /\ CanCall
  /\ \E m \in ModeChoices :
       /\ mode' = m
       /\ DoReset(m, difficulty)
  /\ calls' = calls + 1
  /\ handled' = [kind |-> "setMode", log |-> <<>>, call |-> calls + 1]
  /\ UNCHANGED <<seed, currentLevel, difficulty, inputs, pc, collisions,
                 freed, ticks>>

SetLevel ==
  /\ CanCall
  /\ \E l \in LevelChoices : currentLevel' = l
  /\ calls' = calls + 1
  /\ UNCHANGED <<ships, asteroids, bullets, blackHoles, particles,
                 asteroidsCap, time, wave, seed, rng, crand, mode, difficulty,
                 inputs, nextEntityId, pc, collisions, freed, handled, ticks>>

SetDifficulty ==
  /\ CanCall
  /\ \E c \in DifficultyChoices : difficulty' = c
  /\ calls' = calls + 1
  /\ UNCHANGED <<ships, asteroids, bullets, blackHoles, particles,
                 asteroidsCap, time, wave, seed, rng, crand, mode,
                 currentLevel, inputs, nextEntityId, pc, collisions, freed,
                 handled, ticks>>

SetBlackHolesEnabled ==
  /\ CanCall
  /\ \E en \in BOOLEAN : difficulty' = [difficulty EXCEPT !.bhEnabled = en]
  /\ calls' = calls + 1
  /\ UNCHANGED <<ships, asteroids, bullets, blackHoles, particles,
                 asteroidsCap, time, wave, seed, rng, crand, mode,
                 currentLevel, inputs, nextEntityId, pc, collisions, freed,
                 handled, ticks>>

SetShipMass ==
  /\ CanCall
  /\ \E m \in MassChoices :
       /\ difficulty' = [difficulty EXCEPT !.shipMass = m]
       /\ ships' = [i \in 1..Len(ships) |-> [ships[i] EXCEPT !.mass = m]]
  /\ calls' = calls + 1
  /\ UNCHANGED <<asteroids, bullets, blackHoles, particles, asteroidsCap,
                 time, wave, seed, rng, crand, mode, currentLevel, inputs,
                 nextEntityId, pc, collisions, freed, handled, ticks>>

SetBulletMass ==
  /\ CanCall
  /\ \E m \in MassChoices :
       /\ difficulty' = [difficulty EXCEPT !.bulletMass = m]
       /\ bullets' = [i \in 1..Len(bullets) |-> [bullets[i] EXCEPT !.mass = m]]
  /\ calls' = calls + 1
  /\ UNCHANGED <<ships, asteroids, blackHoles, particles, asteroidsCap,
                 time, wave, seed, rng, crand, mode, currentLevel, inputs,
                 nextEntityId, pc, collisions, freed, handled, ticks>>

SetAsteroidBaseMass ==
  /\ CanCall
  /\ \E m \in MassChoices :
       /\ difficulty' = [difficulty EXCEPT !.asteroidBaseMass = m]
       /\ asteroids' = [i \in 1..Len(asteroids) |->
                          [asteroids[i] EXCEPT !.mass = SDiv(m, Pow2(asteroids[i].size))]]
  /\ calls' = calls + 1
  /\ UNCHANGED <<ships, bullets, blackHoles, particles, asteroidsCap,
                 time, wave, seed, rng, crand, mode, currentLevel, inputs,
                 nextEntityId, pc, collisions, freed, handled, ticks>>

\* GameEngine::setInput: stored only for playerId 0 or 1
SetInput ==
  /\ CanCall
  /\ \E playerId \in PlayerIdChoices, input \in InputChoices :
       /\ inputs' = IF playerId >= 0 /\ playerId < 2
                    THEN [inputs EXCEPT ![playerId + 1] = input]
                    ELSE inputs
       /\ handled' = [kind |-> "setInput", log |-> <<>>, call |-> calls + 1,
                      playerId |-> playerId]
  /\ calls' = calls + 1
  /\ UNCHANGED <<ships, asteroids, bullets, blackHoles, particles,
                 asteroidsCap, time, wave, seed, rng, crand, mode,
                 currentLevel, difficulty, nextEntityId, pc, collisions,
                 freed, ticks>>

\* ---------------------------------------------------------- render queries
\* What an engine_get_*_data call leaves in the caller's buffer:
\* [slots, shown], the slots of outData written and the values written to
\* them as far as the model keeps the fields (flags as 1 and 0).
Bit(flag) == IF flag THEN 1 ELSE 0

\* the body shared by the five accessors: the range check, then count slots
getData(coll, index, count, show(_)) ==
  IF index < 0 \/ index >= Len(coll) THEN [slots |-> {}, shown |-> <<>>]
  ELSE [slots |-> 0..(count - 1), shown |-> show(coll[index + 1])]

engine_get_ship_data(index) ==
  getData(ships, index, 10,
          LAMBDA ship : <<ship.pos[1], ship.pos[2], ship.angle, ship.radius,
                          Bit(ship.active), Bit(ship.invulnerable), ship.lives,
                          ship.score, ship.playerId>>)

\* an asteroid accessor that moves an index outside the collection to the
\* nearest element instead of returning
engine_get_asteroid_data_clamped(index) ==
  getData(asteroids, Max(0, IF index >= Len(asteroids) THEN Len(asteroids) - 1 ELSE index),
          6,
          LAMBDA asteroid : <<asteroid.pos[1], asteroid.pos[2], asteroid.radius,
                              asteroid.size, Bit(asteroid.active)>>)

engine_get_asteroid_data(index) ==
  getData(asteroids, index, 6,
          LAMBDA asteroid : <<asteroid.pos[1], asteroid.pos[2], asteroid.radius,
                              asteroid.size, Bit(asteroid.active)>>)

engine_get_bullet_data(index) ==
  getData(bullets, index, 4,
          LAMBDA bullet : <<bullet.pos[1], bullet.pos[2], bullet.radius,
                            bullet.playerId>>)

engine_get_blackhole_data(index) ==
  getData(blackHoles, index, 4,
          LAMBDA bh : <<bh.pos[1], bh.pos[2], bh.accretionRadius>>)

engine_get_particle_data(index) ==
  getData(particles, index, 3, LAMBDA particle : <<particle.lifetime>>)

\* the collections an accessor reads, by name
Rendered ==
  [ships |-> ships, asteroids |-> asteroids, bullets |-> bullets,
   blackHoles |-> blackHoles, particles |-> particles]

\* one engine_get_*_data call between two steps, with an index below the
\* collection, at its start, or just past its end
GetData ==
  /\ CanCall
  /\ \E k \in DOMAIN Rendered :
       \E index \in {-1, 0, Len(Rendered[k])} :
         handled' = [kind |-> "getData", log |-> <<>>, call |-> calls + 1,
                     coll |-> k, index |-> index, size |-> Len(Rendered[k]),
                     out |-> IF k = "ships" THEN engine_get_ship_data(index)
                             ELSE IF k = "asteroids" THEN engine_get_asteroid_data(index)
                             ELSE IF k = "bullets" THEN engine_get_bullet_data(index)
                             ELSE IF k = "blackHoles" THEN engine_get_blackhole_data(index)
                             ELSE engine_get_particle_data(index)]
  /\ calls' = calls + 1
  /\ UNCHANGED <<ships, asteroids, bullets, blackHoles, particles,
                 asteroidsCap, time, wave, seed, rng, crand, mode,
                 currentLevel, difficulty, inputs, nextEntityId, pc,
                 collisions, freed, ticks>>

\* ---------------------------------------------------- Barnes-Hut quadtree
\* Node geometry (center, halfSize) is kept in 1/TreeScale world units, so
\* that halving stays exact for TreeScale's worth of levels and then
\* underflows to 0 as the float does.
TreeScale == 64

\* PhysicsConfig::theta = 0.5 = ThetaNum / ThetaDen
ThetaNum == 1

ThetaDen == 2

\* QuadTreeNode::QuadTreeNode: an empty leaf; body = << >> is nullptr.
\* overflow marks a node whose construction never ends (see insert).
NewNode(center, halfSize) ==
  [center |-> center, halfSize |-> halfSize, totalMass |-> 0,
   centerOfMass |-> <<0, 0>>, body |-> <<>>, isLeaf |-> TRUE,
   children |-> <<>>, overflow |-> FALSE]

\* QuadTreeNode::getQuadrant, 0..3, as an index 1..4 into children
getQuadrant(node, pos) ==
  1 + (IF pos[1] * TreeScale >= node.center[1] THEN 1 ELSE 0)
    + (IF pos[2] * TreeScale >= node.center[2] THEN 2 ELSE 0)

\* QuadTreeNode::subdivide: the four children NW, NE, SW, SE
subdivide(node) ==
  LET nh == node.halfSize \div 2
      c  == node.center
  IN  <<NewNode(<<c[1] - nh, c[2] - nh>>, nh), NewNode(<<c[1] + nh, c[2] - nh>>, nh),
        NewNode(<<c[1] - nh, c[2] + nh>>, nh), NewNode(<<c[1] + nh, c[2] + nh>>, nh)>>

\* an insert that puts the body in the place of the one a full leaf holds
insertOverwriting(node, b) ==
  [node EXCEPT !.body = <<b>>, !.centerOfMass = b.pos, !.totalMass = b.mass]

\* QuadTreeNode::insert of the body b = [pos, mass].  The recursion never
\* ends (the call stack overflows) when a full leaf whose halfSize has
\* underflowed to 0 hands both bodies to the same child, which is a copy of
\* itself: the result is then marked overflow.
RECURSIVE insert(_, _)
insert(node, b) ==
  IF node.isLeaf THEN
    IF node.body = <<>> THEN
      [node EXCEPT !.body = <<b>>, !.centerOfMass = b.pos, !.totalMass = b.mass]
    ELSE
      LET existingBody == node.body[1]
          kids == subdivide(node)
          q1 == getQuadrant(node, existingBody.pos)
          q2 == getQuadrant(node, b.pos)
      IN  IF node.halfSize = 0 /\ q1 = q2 THEN [node EXCEPT !.overflow = TRUE]
          ELSE
            LET k1 == [kids EXCEPT ![q1] = insert(kids[q1], existingBody)]
                c2 == insert(k1[q2], b)
                m1 == existingBody.mass
                m2 == b.mass
            IN  [node EXCEPT
                   !.body = <<>>, !.isLeaf = FALSE,
                   !.children = [k1 EXCEPT ![q2] = c2],
                   !.overflow = c2.overflow,
                   !.totalMass = m1 + m2,
                   !.centerOfMass =
                      VDiv(VAdd(VScale(existingBody.pos, m1), VScale(b.pos, m2)),
                           m1 + m2)]
  ELSE
    LET quad == getQuadrant(node, b.pos)
        c == insert(node.children[quad], b)
        total == node.totalMass + b.mass
    IN  [node EXCEPT
           !.children = [node.children EXCEPT ![quad] = c],
           !.overflow = c.overflow,
           !.totalMass = total,
           !.centerOfMass =
              IF total > 0
              THEN VDiv(VAdd(VScale(node.centerOfMass, node.totalMass),
                             VScale(b.pos, b.mass)), total)
              ELSE node.centerOfMass]

\* the insertion loop of QuadTree::build
RECURSIVE insertAll(_, _, _)
insertAll(root, bodies, i) ==
  IF i > Len(bodies) \/ root.overflow THEN root
  ELSE insertAll(insert(root, bodies[i]), bodies, i + 1)

\* QuadTree::build over the bodies (a sequence of [pos, mass])
build(bodies) ==
  insertAll(NewNode(<<(WorldWidth * TreeScale) \div 2, (WorldHeight * TreeScale) \div 2>>,
                    (Max(WorldWidth, WorldHeight) * TreeScale) \div 2),
            bodies, 1)

\* the softened point-mass term dr * (G * M / (r2 + eps^2)^1.5)
SoftenedForce(dr, gm, eps) ==
  LET x == LengthSquared(dr) + eps * eps
  IN  VDiv(VScale(dr, SDiv(gm, x)), ISqrt(x))

\* an opening test that takes the configured theta whatever theta it is given
FarEnoughConfigured(s, r2, thetaNum, thetaDen) ==
  ((ThetaDen * s) * (ThetaDen * s)) \div (ThetaNum * ThetaNum * TreeScale * TreeScale) < r2

\* the opening criterion s / r < theta, for a node of size s (in 1/TreeScale
\* units) at squared distance r2 and theta = thetaNum / thetaDen >= 0, as
\* (s / theta)^2 < r2; false at theta = 0, and at r = 0, where s / r is
\* infinite or not a number
FarEnough(s, r2, thetaNum, thetaDen) ==
  /\ thetaNum # 0
  /\ ((thetaDen * s) * (thetaDen * s)) \div (thetaNum * thetaNum * TreeScale * TreeScale) < r2

\* QuadTreeNode::calculateAcceleration with theta = thetaNum / thetaDen
RECURSIVE calculateAccelerationAt(_, _, _, _, _)
calculateAccelerationAt(node, pos, mass, thetaNum, thetaDen) ==
  IF node.totalMass = 0 THEN <<0, 0>>
  ELSE
    LET dr == minimumImage(VSub(node.centerOfMass, pos), WorldWidth, WorldHeight)
        r2 == LengthSquared(dr)
        s  == node.halfSize * 2
    IN  IF node.isLeaf THEN
          IF node.body # <<>> /\ node.body[1].pos = pos /\ node.body[1].mass = mass
          THEN <<0, 0>>
          ELSE SoftenedForce(dr, GravG * node.totalMass, GravEps)
        ELSE IF FarEnough(s, r2, thetaNum, thetaDen)
          THEN SoftenedForce(dr, GravG * node.totalMass, GravEps)
          ELSE LET a == [i \in 1..4 |->
                           calculateAccelerationAt(node.children[i], pos, mass,
                                                   thetaNum, thetaDen)]
               IN  VAdd(VAdd(a[1], a[2]), VAdd(a[3], a[4]))

\* QuadTree::calculateAcceleration as applyPhysics calls it, with physics.theta
calculateAcceleration(node, pos, mass) ==
  calculateAccelerationAt(node, pos, mass, ThetaNum, ThetaDen)

\* IExternalPotential::accelerationAt for the potential createPotential
\* makes: level 1 is the central point mass (GM = 50000, eps = 20), level 0
\* and every id outside 1..4 is NoPotential (levels 2..4 are not in
\* LevelChoices)
accelerationAt(level, pos) ==
  IF level = 1
  THEN SoftenedForce(VSub(<<SDiv(WorldWidth, 2), SDiv(WorldHeight, 2)>>, pos), 50000, 20)
  ELSE <<0, 0>>

\* ------------------------------------------------------- per-tick updates
\* Ship::update(dt), dt in tenths of a second
ShipUpdateBy(s, dt) ==
  LET t == s.invulnerableTime - dt
      s1 == IF s.invulnerable
            THEN IF t <= 0
                 THEN [s EXCEPT !.invulnerable = FALSE, !.invulnerableTime = 0]
                 ELSE [s EXCEPT !.invulnerableTime = t]
            ELSE s
  IN  IF s1.shootCooldown > 0
      THEN [s1 EXCEPT !.shootCooldown = @ - dt]
      ELSE s1

\* ship.update(physics.dt) of updateEntities
ShipUpdate(s) == ShipUpdateBy(s, DtTenths)

\* a bullet update that counts the lifetime down and never expires the bullet
BulletUpdateNoExpiry(b) == [b EXCEPT !.lifetime = @ - DtTenths]

\* Bullet::update(dt)
BulletUpdate(b) ==
  LET l == b.lifetime - DtTenths
  IN  [b EXCEPT !.lifetime = l, !.active = IF l <= 0 THEN FALSE ELSE @]

\* Particle::update(dt)
ParticleUpdate(p) ==
  LET l == p.lifetime - DtTenths
  IN  [p EXCEPT !.lifetime = l, !.active = IF l <= 0 THEN FALSE ELSE @]

\* op applied to the active elements of a collection
MapActive(op(_), coll) ==
  [i \in 1..Len(coll) |-> IF coll[i].active THEN op(coll[i]) ELSE coll[i]]

\* the quarter turns of Ship::rotate(3.0 * dt): 3 dt radians, to the nearest
RotateQuarters == (60 * DtTenths + 157) \div 314

\* the input block applied to ship i whether it is active or not
ApplyInputInactive(st, i, input, diff) ==
  LET s0 == st.ships[i]
      a1 == IF input.left THEN s0.angle - RotateQuarters ELSE s0.angle
      a2 == (IF input.right THEN a1 + RotateQuarters ELSE a1) % 4
      v1 == IF input.thrust
            THEN VAdd(s0.vel, VScale(Direction(a2), MulDt(ThrustPower)))
            ELSE s0.vel
      v2 == IF input.brake
            THEN IF LengthSquared(v1) > 1
                 THEN VSub(v1, VDiv(VScale(v1, MulDt(ThrustPower)), Length(v1)))
                 ELSE <<0, 0>>
            ELSE v1
      s1 == [s0 EXCEPT !.angle = a2, !.vel = v2]
      fire == input.shoot /\ s1.shootCooldown <= 0
      bullet == [BulletInit(st.nextId,
                            VAdd(s1.pos, VScale(Direction(a2), s1.radius + BulletMuzzle)),
                            VAdd(s1.vel, VScale(Direction(a2), BulletSpeed)),
                            i - 1)
                   EXCEPT !.mass = diff.bulletMass]
  IN  IF fire
      THEN [ships |-> [st.ships EXCEPT ![i] = [s1 EXCEPT !.shootCooldown = ShootCooldownTenths]],
            bullets |-> Append(st.bullets, bullet),
            nextId |-> st.nextId + 1]
      ELSE [st EXCEPT !.ships[i] = s1]

\* the input block with a trigger that ignores the cooldown
ApplyInputNoCooldown(st, i, input, diff) ==
  LET s0 == st.ships[i]
      bullet == [BulletInit(st.nextId,
                            VAdd(s0.pos, VScale(Direction(s0.angle), s0.radius + BulletMuzzle)),
                            VAdd(s0.vel, VScale(Direction(s0.angle), BulletSpeed)),
                            i - 1)
                   EXCEPT !.mass = diff.bulletMass]
  IN  IF s0.active /\ input.shoot
      THEN [ships |-> [st.ships EXCEPT ![i].shootCooldown = ShootCooldownTenths],
            bullets |-> Append(st.bullets, bullet),
            nextId |-> st.nextId + 1]
      ELSE st

\* the input block of GameEngine::step for ship i, on
\* st = [ships, bullets, nextId]
ApplyInput(st, i, input, diff) ==
  LET s0 == st.ships[i]
      a1 == IF input.left THEN s0.angle - RotateQuarters ELSE s0.angle
      a2 == (IF input.right THEN a1 + RotateQuarters ELSE a1) % 4
      v1 == IF input.thrust
            THEN VAdd(s0.vel, VScale(Direction(a2), MulDt(ThrustPower)))
            ELSE s0.vel
      v2 == IF input.brake
            THEN IF LengthSquared(v1) > 1
                 THEN VSub(v1, VDiv(VScale(v1, MulDt(ThrustPower)), Length(v1)))
                 ELSE <<0, 0>>
            ELSE v1
      s1 == [s0 EXCEPT !.angle = a2, !.vel = v2]
      fire == input.shoot /\ s1.shootCooldown <= 0
      bullet == [BulletInit(st.nextId,
                            VAdd(s1.pos, VScale(Direction(a2), s1.radius + BulletMuzzle)),
                            VAdd(s1.vel, VScale(Direction(a2), BulletSpeed)),
                            i - 1)
                   EXCEPT !.mass = diff.bulletMass]
  IN  IF ~s0.active THEN st
      ELSE IF fire
      THEN [ships |-> [st.ships EXCEPT ![i] = [s1 EXCEPT !.shootCooldown = ShootCooldownTenths]],
            bullets |-> Append(st.bullets, bullet),
            nextId |-> st.nextId + 1]
      ELSE [st EXCEPT !.ships[i] = s1]

RECURSIVE ApplyInputs(_, _, _, _)
ApplyInputs(st, i, ins, diff) ==
  IF i > Len(st.ships) THEN st
  ELSE ApplyInputs(ApplyInput(st, i, ins[i], diff), i + 1, ins, diff)

\* ------------------------------------------------------------ integrator
\* A world w is the record of the four collections that hold bodies; a body
\* reference (a Body* into a vector) is [k |-> field name, i |-> index].
Kinds == <<"ships", "asteroids", "bullets", "blackHoles">>

ActiveIdx(coll) == SelectSeq([i \in 1..Len(coll) |-> i], LAMBDA i : coll[i].active)

\* the bodies vector of applyPhysics, as [pos, mass] in insertion order
BodiesOf(w) ==
  LET pm(coll) == [n \in 1..Len(ActiveIdx(coll)) |->
                     [pos |-> coll[ActiveIdx(coll)[n]].pos,
                      mass |-> coll[ActiveIdx(coll)[n]].mass]]
  IN  pm(w.ships) \o pm(w.asteroids) \o pm(w.bullets) \o pm(w.blackHoles)

\* one half-kick of every active body against the tree
Kick(w, tree, level) ==
  LET kick(b) ==
        LET acc == VAdd(calculateAcceleration(tree, b.pos, b.mass),
                        accelerationAt(level, b.pos))
        IN  [b EXCEPT !.vel = VAdd(@, <<MulHalfDt(acc[1]), MulHalfDt(acc[2])>>)]
  IN  [k \in DOMAIN w |-> MapActive(kick, w[k])]

\* a drift that wraps every body, whatever its wrap flag
DriftWrappingAll(w) ==
  LET drift(b) ==
        LET p == VAdd(b.pos, <<MulDt(b.vel[1]), MulDt(b.vel[2])>>)
        IN  [b EXCEPT !.pos = wrapPosition(p, WorldWidth, WorldHeight)]
  IN  [k \in DOMAIN w |-> MapActive(drift, w[k])]

\* the drift of every active body, wrapping those that wrap
Drift(w) ==
  LET drift(b) ==
        LET p == VAdd(b.pos, <<MulDt(b.vel[1]), MulDt(b.vel[2])>>)
        IN  [b EXCEPT !.pos = IF b.wraps THEN wrapPosition(p, WorldWidth, WorldHeight) ELSE p]
  IN  [k \in DOMAIN w |-> MapActive(drift, w[k])]

\* the last loop of applyPhysics
DropOffscreen(w) ==
  [w EXCEPT !.blackHoles =
     [i \in 1..Len(@) |-> IF @[i].active /\ isOffscreen(@[i])
                          THEN [@[i] EXCEPT !.active = FALSE] ELSE @[i]]]

\* the bodies a built tree holds in its leaves
RECURSIVE LeavesOf(_)
LeavesOf(node) ==
  IF node.isLeaf THEN {node.body[i] : i \in 1..Len(node.body)}
  ELSE UNION {LeavesOf(node.children[i]) : i \in 1..4}

\* the ids of the bodies vector of applyPhysics, in insertion order
BodyIds(w) ==
  LET ids(coll) == [n \in 1..Len(ActiveIdx(coll)) |-> coll[ActiveIdx(coll)[n]].id]
  IN  ids(w.ships) \o ids(w.asteroids) \o ids(w.bullets) \o ids(w.blackHoles)

\* what the phases of applyPhysics leave in its log: a build (entered, and
\* returned or not) with the bodies it was given; a kick with the bodies the
\* tree it queries holds and the bodies as they are when queried; a drift
LogBuild(w, tree) ==
  [op |-> "build", ids |-> BodyIds(w), given |-> BodiesOf(w),
   returned |-> ~tree.overflow]

LogKick(w, tree) ==
  [op |-> "kick", ids |-> BodyIds(w), tree |-> LeavesOf(tree),
   at |-> {BodiesOf(w)[i] : i \in 1..Len(BodiesOf(w))}]

\* the bodies of the drift loop, each with the position it had, the
\* velocity it moved with and the position it was left at
Drifted(w, w1) ==
  LET of(k) == [n \in 1..Len(ActiveIdx(w[k])) |->
                  [k |-> k, wraps |-> w[k][ActiveIdx(w[k])[n]].wraps,
                   from |-> w[k][ActiveIdx(w[k])[n]].pos,
                   vel |-> w1[k][ActiveIdx(w[k])[n]].vel,
                   to |-> w1[k][ActiveIdx(w[k])[n]].pos]]
  IN  of("ships") \o of("asteroids") \o of("bullets") \o of("blackHoles")

LogDrift(w, w1) == [op |-> "drift", ids |-> BodyIds(w), moved |-> Drifted(w, w1)]

\* GameEngine::applyPhysics: [w, stalled, log]; stalled when a build never
\* ends.  With no active body the two builds are skipped and the loops run
\* over nothing.
applyPhysics(w, level) ==
  LET tree1 == build(BodiesOf(w))
      w1 == Drift(Kick(w, tree1, level))
      tree2 == build(BodiesOf(w1))
      none == NewNode(<<0, 0>>, 0)
  IN  IF BodiesOf(w) = <<>>
      THEN [w |-> DropOffscreen(w), stalled |-> FALSE,
            log |-> <<LogKick(w, none), LogDrift(w, w), LogKick(w, none)>>]
      ELSE IF tree1.overflow
      THEN [w |-> w, stalled |-> TRUE, log |-> <<LogBuild(w, tree1)>>]
      ELSE IF tree2.overflow
      THEN [w |-> w1, stalled |-> TRUE,
            log |-> <<LogBuild(w, tree1), LogKick(w, tree1), LogDrift(w, w1),
                      LogBuild(w1, tree2)>>]
      ELSE [w |-> DropOffscreen(Kick(w1, tree2, level)), stalled |-> FALSE,
            log |-> <<LogBuild(w, tree1), LogKick(w, tree1), LogDrift(w, w1),
                      LogBuild(w1, tree2), LogKick(w1, tree2)>>]

\* ------------------------------------------------------ collision detector
\* CollisionDetector::getMinimumImagePos
getMinimumImagePos(pos, reference) ==
  VAdd(reference, minimumImage(VSub(pos, reference), WorldWidth, WorldHeight))

\* CollisionDetector::checkCollision: [hit, distance]
checkCollision(a, b, radiusA, radiusB) ==
  LET posB == IF a.wraps /\ b.wraps THEN getMinimumImagePos(b.pos, a.pos) ELSE b.pos
      dist2 == LengthSquared(VSub(posB, a.pos))
      minDist == radiusA + radiusB
  IN  [hit |-> dist2 < minDist * minDist, distance |-> ISqrt(dist2)]

\* the index pairs <<i, j>>, i in 1..n outer, j in 1..m inner, in loop order
LoopPairs(n, m) == [k \in 1..(n * m) |-> <<((k - 1) \div m) + 1, ((k - 1) % m) + 1>>]

Ref(k, i) == [k |-> k, i |-> i]

\* body-against-body loops: the pairs of ka x kb that pass keep, in order
PairsOf(w, ka, kb, keep(_, _)) ==
  LET cand == SelectSeq(LoopPairs(Len(w[ka]), Len(w[kb])),
                        LAMBDA p : keep(p[1], p[2]))
  IN  [n \in 1..Len(cand) |->
         [a |-> Ref(ka, cand[n][1]), b |-> Ref(kb, cand[n][2]),
          distance |-> checkCollision(w[ka][cand[n][1]], w[kb][cand[n][2]],
                                      w[ka][cand[n][1]].radius,
                                      w[kb][cand[n][2]].radius).distance]]

Overlap(x, y) == checkCollision(x, y, x.radius, y.radius).hit

\* an accretion test on the raw displacement of the stored positions
checkAccretionRaw(body, bh) ==
  LET dr == VSub(body.pos, bh.pos)
  IN  [hit |-> LengthSquared(dr) < bh.accretionRadius * bh.accretionRadius
               /\ bh.accretionRadius > 0,
       distance |-> Length(dr)]

\* the accretion test of one body against one black hole: [hit, distance]
checkAccretion(body, bh) ==
  LET d0 == VSub(body.pos, bh.pos)
      dr == IF body.wraps THEN minimumImage(d0, WorldWidth, WorldHeight) ELSE d0
  IN  [hit |-> LengthSquared(dr) < bh.accretionRadius * bh.accretionRadius
               /\ bh.accretionRadius > 0,
       distance |-> Length(dr)]

\* the accretion loops of one black hole h over one collection
AccretionOf(w, k, h) ==
  LET idx == SelectSeq([i \in 1..Len(w[k]) |-> i],
                       LAMBDA i : w[k][i].active
                                  /\ checkAccretion(w[k][i], w.blackHoles[h]).hit)
  IN  [n \in 1..Len(idx) |->
         [a |-> Ref(k, idx[n]), b |-> Ref("blackHoles", h),
          distance |-> checkAccretion(w[k][idx[n]], w.blackHoles[h]).distance]]

RECURSIVE AccretionFrom(_, _)
AccretionFrom(w, h) ==
  IF h > Len(w.blackHoles) THEN <<>>
  ELSE (IF w.blackHoles[h].active
        THEN AccretionOf(w, "ships", h) \o AccretionOf(w, "asteroids", h)
               \o AccretionOf(w, "bullets", h)
        ELSE <<>>) \o AccretionFrom(w, h + 1)

\* the detector with the asteroid loop run over every ordered pair
detectCollisionsBothOrders(w) ==
  PairsOf(w, "ships", "asteroids",
          LAMBDA i, j : /\ w.ships[i].active /\ ~w.ships[i].invulnerable
                        /\ w.asteroids[j].active
                        /\ Overlap(w.ships[i], w.asteroids[j]))
  \o PairsOf(w, "ships", "ships",
          LAMBDA i, j : /\ i < j /\ w.ships[i].active /\ w.ships[j].active
                        /\ Overlap(w.ships[i], w.ships[j]))
  \o PairsOf(w, "asteroids", "asteroids",
          LAMBDA i, j : /\ i # j /\ w.asteroids[i].active /\ w.asteroids[j].active
                        /\ Overlap(w.asteroids[i], w.asteroids[j]))
  \o PairsOf(w, "bullets", "asteroids",
          LAMBDA i, j : /\ w.bullets[i].active /\ w.asteroids[j].active
                        /\ Overlap(w.bullets[i], w.asteroids[j]))
  \o AccretionFrom(w, 1)

\* the detector without its bullet loop
detectCollisionsNoBullets(w) ==
  PairsOf(w, "ships", "asteroids",
          LAMBDA i, j : /\ w.ships[i].active /\ ~w.ships[i].invulnerable
                        /\ w.asteroids[j].active
                        /\ Overlap(w.ships[i], w.asteroids[j]))
  \o PairsOf(w, "ships", "ships",
          LAMBDA i, j : /\ i < j /\ w.ships[i].active /\ w.ships[j].active
                        /\ Overlap(w.ships[i], w.ships[j]))
  \o PairsOf(w, "asteroids", "asteroids",
          LAMBDA i, j : /\ i < j /\ w.asteroids[i].active /\ w.asteroids[j].active
                        /\ Overlap(w.asteroids[i], w.asteroids[j]))
  \o AccretionFrom(w, 1)

\* CollisionDetector::detectCollisions
detectCollisions(w) ==
  PairsOf(w, "ships", "asteroids",
          LAMBDA i, j : /\ w.ships[i].active /\ ~w.ships[i].invulnerable
                        /\ w.asteroids[j].active
                        /\ Overlap(w.ships[i], w.asteroids[j]))
  \o PairsOf(w, "ships", "ships",
          LAMBDA i, j : /\ i < j /\ w.ships[i].active /\ w.ships[j].active
                        /\ Overlap(w.ships[i], w.ships[j]))
  \o PairsOf(w, "asteroids", "asteroids",
          LAMBDA i, j : /\ i < j /\ w.asteroids[i].active /\ w.asteroids[j].active
                        /\ Overlap(w.asteroids[i], w.asteroids[j]))
  \o PairsOf(w, "bullets", "asteroids",
          LAMBDA i, j : /\ w.bullets[i].active /\ w.asteroids[j].active
                        /\ Overlap(w.bullets[i], w.asteroids[j]))
  \o AccretionFrom(w, 1)

World == [ships |-> ships, asteroids |-> asteroids, bullets |-> bullets,
          blackHoles |-> blackHoles]

\* ------------------------------------------------------ collision handler
\* A batch b is the part of the engine handleCollisions works on:
\*   [w, particles, cap, crand, nextId, freed].
\* A pair's reference into the asteroids vector was taken at detection.  Once
\* a push_back has moved the vector to a new buffer (freed # << >>) such a
\* reference points into the freed buffer: reads through it see the bytes
\* left there and writes through it never reach the vector.
Stale(b, ref) == ref.k = "asteroids" /\ b.freed # <<>>

Deref(b, ref) == IF Stale(b, ref) THEN b.freed[ref.i] ELSE b.w[ref.k][ref.i]

Store(b, ref, body) ==
  IF Stale(b, ref) THEN [b EXCEPT !.freed[ref.i] = body]
  ELSE [b EXCEPT !.w[ref.k][ref.i] = body]

\* asteroids.push_back(newAst): a full vector moves to a new buffer and frees
\* the old one
PushAsteroid(b, newAst) ==
  [b EXCEPT !.w.asteroids = Append(@, newAst),
            !.cap = PushCap(Len(b.w.asteroids), @),
            !.freed = IF Len(b.w.asteroids) >= b.cap /\ b.freed = <<>>
                      THEN b.w.asteroids ELSE @]

\* CollisionHandler::createExplosion: count particles of the given lifetime
\* and player tag; two rand() draws each
createExplosion(b, count, lifeTenths, playerId) ==
  [b EXCEPT !.particles = @ \o [i \in 1..count |-> ParticleInit(lifeTenths, playerId)],
            !.crand = CRandSkip(@, 2 * count)]

WorldCentre == <<SDiv(WorldWidth, 2), SDiv(WorldHeight, 2)>>

\* a hit that leaves the surviving ship where it is, still moving
handleShipAsteroidNoRespawn(b, sref, aref) ==
  LET ship == Deref(b, sref)
      lives == ship.lives - 1
  IN  IF lives <= 0
      THEN createExplosion(
             createExplosion(
               Store(b, sref, [ship EXCEPT !.lives = lives, !.active = FALSE]),
               50, 13, ship.playerId),
             40, 15, ship.playerId)
      ELSE createExplosion(
             Store(b, sref, [ship EXCEPT !.lives = lives, !.invulnerable = TRUE,
                                         !.invulnerableTime = InvulnerableTenths]),
             40, 13, ship.playerId)

\* a hit that never takes the ship out of the game
handleShipAsteroidUndying(b, sref, aref) ==
  LET ship == Deref(b, sref)
  IN  createExplosion(
        Store(b, sref, [ship EXCEPT !.lives = @ - 1, !.invulnerable = TRUE,
                                    !.invulnerableTime = InvulnerableTenths,
                                    !.pos = WorldCentre, !.vel = <<0, 0>>]),
        40, 13, ship.playerId)

\* CollisionHandler::handleShipAsteroid
handleShipAsteroid(b, sref, aref) ==
  LET ship == Deref(b, sref)
      lives == ship.lives - 1
  IN  IF lives <= 0
      THEN createExplosion(
             createExplosion(
               Store(b, sref, [ship EXCEPT !.lives = lives, !.active = FALSE]),
               50, 13, ship.playerId),
             40, 15, ship.playerId)
      ELSE createExplosion(
             Store(b, sref, [ship EXCEPT !.lives = lives, !.invulnerable = TRUE,
                                         !.invulnerableTime = InvulnerableTenths,
                                         !.pos = WorldCentre, !.vel = <<0, 0>>]),
             40, 13, ship.playerId)

\* CollisionHandler::handleShipShip in the engine's fixed-point arithmetic
handleShipShip(b, r1, r2) ==
  LET ship1 == Deref(b, r1)
      ship2 == Deref(b, r2)
      dr == minimumImage(VSub(ship2.pos, ship1.pos), WorldWidth, WorldHeight)
      dist == Length(dr)
      velAlongNormal == SDiv(Dot(VSub(ship2.vel, ship1.vel), dr), Max(dist, 1))
      impulse == SDiv(-2 * velAlongNormal, 2)
      dv == VDiv(VScale(dr, impulse), Max(dist, 1))
      overlap == (ship1.radius + ship2.radius) - dist
      separation == VDiv(VScale(dr, overlap), 2 * Max(dist, 1))
      p1 == IF overlap > 0
            THEN wrapPosition(VSub(ship1.pos, separation), WorldWidth, WorldHeight)
            ELSE ship1.pos
      p2 == IF overlap > 0
            THEN wrapPosition(VAdd(ship2.pos, separation), WorldWidth, WorldHeight)
            ELSE ship2.pos
  IN  IF dist = 0 \/ velAlongNormal > 0 THEN b
      ELSE Store(Store(b, r1, [ship1 EXCEPT !.vel = VSub(@, dv), !.pos = p1]),
                 r2, [ship2 EXCEPT !.vel = VAdd(@, dv), !.pos = p2])

\* CollisionHandler::handleAsteroidAsteroid in the engine's fixed-point
\* arithmetic; impulse / m1 and impulse / m2 are formed directly, as
\* -2 v m2 / (m1 + m2) and -2 v m1 / (m1 + m2)
handleAsteroidAsteroid(b, r1, r2) ==
  LET a1 == Deref(b, r1)
      a2 == Deref(b, r2)
      dr == minimumImage(VSub(a2.pos, a1.pos), WorldWidth, WorldHeight)
      dist == Length(dr)
      velAlongNormal == SDiv(Dot(VSub(a2.vel, a1.vel), dr), Max(dist, 1))
      m1 == a1.mass
      m2 == a2.mass
      totalMass == m1 + m2
      dv1 == VDiv(VScale(dr, SDiv(-2 * velAlongNormal * m2, totalMass)), Max(dist, 1))
      dv2 == VDiv(VScale(dr, SDiv(-2 * velAlongNormal * m1, totalMass)), Max(dist, 1))
      overlap == (a1.radius + a2.radius) - dist
      separation1 == SDiv(overlap * m2, totalMass)
      separation2 == SDiv(overlap * m1, totalMass)
      p1 == IF overlap > 0
            THEN wrapPosition(VSub(a1.pos, VDiv(VScale(dr, separation1), Max(dist, 1))),
                              WorldWidth, WorldHeight)
            ELSE a1.pos
      p2 == IF overlap > 0
            THEN wrapPosition(VAdd(a2.pos, VDiv(VScale(dr, separation2), Max(dist, 1))),
                              WorldWidth, WorldHeight)
            ELSE a2.pos
  IN  IF dist = 0 \/ velAlongNormal > 0 THEN b
      ELSE Store(Store(b, r1, [a1 EXCEPT !.vel = VSub(@, dv1), !.pos = p1]),
                 r2, [a2 EXCEPT !.vel = VAdd(@, dv2), !.pos = p2])

\* a fragment loop that hands each fragment the id of its parent
SpawnFragmentParentId(b, aref, i) ==
  LET asteroid == Deref(b, aref)
      d1 == CRandStep(b.crand)
      d2 == CRandStep(d1)
      angle == ((4 * (d1 % 360)) \div 360) + 2 * i
      offset == VDiv(VScale(Direction(angle), asteroid.radius * 3), 2)
      newPos == wrapPosition(VAdd(asteroid.pos, offset), WorldWidth, WorldHeight)
      speed == 100 + (d2 % 100)
      newVel == VAdd(VDiv(VScale(asteroid.vel, 3), 10), VScale(Direction(angle), speed))
      baseMass == asteroid.mass * Pow2(asteroid.size)
      newAst == AsteroidInit(asteroid.id, newPos, newVel, asteroid.size + 1, baseMass)
  IN  PushAsteroid([b EXCEPT !.crand = CRandStep(d2)], newAst)

\* one iteration i of the fragment loop of handleBulletAsteroid; the parent
\* is read through the pair's pointer each time.  Of the angle drawn by
\* rand() % 360 the quarter turn is kept.
SpawnFragment(b, aref, i) ==
  LET asteroid == Deref(b, aref)
      d1 == CRandStep(b.crand)
      d2 == CRandStep(d1)
      angle == ((4 * (d1 % 360)) \div 360) + 2 * i
      offset == VDiv(VScale(Direction(angle), asteroid.radius * 3), 2)
      newPos == wrapPosition(VAdd(asteroid.pos, offset), WorldWidth, WorldHeight)
      speed == 100 + (d2 % 100)
      newVel == VAdd(VDiv(VScale(asteroid.vel, 3), 10), VScale(Direction(angle), speed))
      baseMass == asteroid.mass * Pow2(asteroid.size)
      newAst == AsteroidInit(b.nextId, newPos, newVel, asteroid.size + 1, baseMass)
  IN  PushAsteroid([b EXCEPT !.crand = CRandStep(d2), !.nextId = @ + 1], newAst)

\* CollisionHandler::handleBulletAsteroid
handleBulletAsteroid(b, bref, aref) ==
  LET b0 == Store(b, bref, [Deref(b, bref) EXCEPT !.active = FALSE])
      b1 == IF Deref(b0, aref).size < TerminalSize
            THEN LET f == SpawnFragment(SpawnFragment(b0, aref, 0), aref, 1)
                 IN  createExplosion(f, 8, 10, -1)
            ELSE createExplosion(b0, 15, 10, -1)
  IN  Store(b1, aref, [Deref(b1, aref) EXCEPT !.active = FALSE])

\* CollisionHandler::handleBlackHoleAccretion
handleBlackHoleAccretion(b, ref, bhref) ==
  LET body == Deref(b, ref)
      lives == body.lives - 1
  IN  IF ref.k = "ships"
      THEN IF lives <= 0
           THEN createExplosion(
                  Store(b, ref, [body EXCEPT !.lives = lives, !.active = FALSE]),
                  60, 20, body.playerId)
           ELSE createExplosion(
                  Store(b, ref, [body EXCEPT !.lives = lives, !.invulnerable = TRUE,
                                             !.invulnerableTime = InvulnerableTenths,
                                             !.pos = WorldCentre, !.vel = <<0, 0>>]),
                  40, 15, body.playerId)
      ELSE createExplosion(Store(b, ref, [body EXCEPT !.active = FALSE]), 20, 10, -1)

\* ------------------------------------------------------------ step()
\* GameEngine::step up to and including detectCollisions: timers, inputs,
\* physics, and the pair list of the batch.  When a quadtree build never
\* returns the call never does either (pc = "stalled").
StepBegin ==
  /\ pc = "idle"
  /\ ticks < MaxTicks
  /\ \E st \in {ApplyInputs([ships |-> MapActive(ShipUpdate, ships),
                               bullets |-> MapActive(BulletUpdate, bullets),
                               nextId |-> nextEntityId], 1, inputs, difficulty)} :
     \E ph \in {applyPhysics([ships |-> st.ships, asteroids |-> asteroids,
                               bullets |-> st.bullets, blackHoles |-> blackHoles],
                              currentLevel)} :
         /\ ships' = ph.w.ships
         /\ asteroids' = ph.w.asteroids
         /\ bullets' = ph.w.bullets
         /\ blackHoles' = ph.w.blackHoles
         /\ particles' = MapActive(ParticleUpdate, particles)
         /\ nextEntityId' = st.nextId
         /\ pc' = IF ph.stalled THEN "stalled" ELSE "collide"
         /\ collisions' = IF ph.stalled THEN <<>> ELSE detectCollisions(ph.w)
         /\ handled' = [kind |-> "none", log |-> <<>>, integration |-> ph.log]
  /\ freed' = <<>>
  /\ UNCHANGED <<asteroidsCap, time, wave, seed, rng, crand, mode,
                 currentLevel, difficulty, inputs, ticks, calls>>

\* the batch handleCollisions works on, from the variables
Batch == [w |-> World, particles |-> particles, cap |-> asteroidsCap,
          crand |-> crand, nextId |-> nextEntityId, freed |-> freed]

\* what a->active can read: the flag, or for a pointer into a freed buffer
\* whatever the allocator has left there
ActiveReads(b, ref) == IF Stale(b, ref) THEN BOOLEAN ELSE {Deref(b, ref).active}

\* the type dispatch of handleCollisions for one pair: the handler's name
Dispatch(pair) ==
  IF pair.a.k = "ships" /\ pair.b.k = "asteroids" THEN "shipAsteroid"
  ELSE IF pair.a.k = "ships" /\ pair.b.k = "ships" THEN "shipShip"
  ELSE IF pair.a.k = "asteroids" /\ pair.b.k = "asteroids" THEN "asteroidAsteroid"
  ELSE IF pair.a.k = "bullets" /\ pair.b.k = "asteroids" THEN "bulletAsteroid"
  ELSE IF pair.b.k = "blackHoles" THEN "accretion"
  ELSE "none"

\* the score award after handleBulletAsteroid
AwardPoints(b, bref) ==
  LET playerId == Deref(b, bref).playerId
  IN  IF playerId >= 0 /\ playerId < Len(b.w.ships)
      THEN [b EXCEPT !.w.ships[playerId + 1].score = @ + ScorePerHit]
      ELSE b

\* the loop body with every handler followed by an erase of the bullets it
\* has deactivated
ResolveErasing(b, pair) ==
  LET kind == Dispatch(pair)
      r == IF kind = "shipAsteroid" THEN handleShipAsteroid(b, pair.a, pair.b)
           ELSE IF kind = "shipShip" THEN handleShipShip(b, pair.a, pair.b)
           ELSE IF kind = "asteroidAsteroid" THEN handleAsteroidAsteroid(b, pair.a, pair.b)
           ELSE IF kind = "bulletAsteroid"
           THEN AwardPoints(handleBulletAsteroid(b, pair.a, pair.b), pair.a)
           ELSE IF kind = "accretion" THEN handleBlackHoleAccretion(b, pair.a, pair.b)
           ELSE b
  IN  [r EXCEPT !.w.bullets = SelectSeq(@, LAMBDA x : x.active)]

\* the body of the loop of handleCollisions for a pair that passed the guard
Resolve(b, pair) ==
  LET kind == Dispatch(pair)
  IN  IF kind = "shipAsteroid" THEN handleShipAsteroid(b, pair.a, pair.b)
      ELSE IF kind = "shipShip" THEN handleShipShip(b, pair.a, pair.b)
      ELSE IF kind = "asteroidAsteroid" THEN handleAsteroidAsteroid(b, pair.a, pair.b)
      ELSE IF kind = "bulletAsteroid"
      THEN AwardPoints(handleBulletAsteroid(b, pair.a, pair.b), pair.a)
      ELSE IF kind = "accretion" THEN handleBlackHoleAccretion(b, pair.a, pair.b)
      ELSE b

\* one iteration of the loop of GameEngine::handleCollisions
ResolvePair ==
  /\ pc = "collide"
  /\ collisions # <<>>
  /\ LET pair == Head(collisions)
     IN  \E actA \in ActiveReads(Batch, pair.a), actB \in ActiveReads(Batch, pair.b) :
           LET skip == ~actA \/ ~actB
               b == IF skip THEN Batch ELSE Resolve(Batch, pair)
           IN  /\ ships' = b.w.ships
               /\ asteroids' = b.w.asteroids
               /\ bullets' = b.w.bullets
               /\ blackHoles' = b.w.blackHoles
               /\ particles' = b.particles
               /\ asteroidsCap' = b.cap
               /\ crand' = b.crand
               /\ nextEntityId' = b.nextId
               /\ freed' = b.freed
               /\ handled' = [kind |-> IF skip THEN "skip" ELSE Dispatch(pair),
                              pair |-> pair,
                              bodyA |-> World[pair.a.k][pair.a.i],
                              bodyB |-> World[pair.b.k][pair.b.i],
                              stale |-> Stale(Batch, pair.a) \/ Stale(Batch, pair.b),
                              nAsteroids |-> Len(asteroids),
                              nParticles |-> Len(particles),
                              log |-> IF skip THEN handled.log
                                      ELSE Append(handled.log, pair)]
  /\ collisions' = Tail(collisions)
  /\ UNCHANGED <<time, wave, seed, rng, mode, currentLevel, difficulty,
                 inputs, pc, ticks, calls>>

RemoveNothing(coll) == coll

\* GameEngine::cleanupInactive on one collection
RemoveInactive(coll) == SelectSeq(coll, LAMBDA x : x.active)

\* GameEngine::step from the black-hole spawn to its return
StepEnd ==
  /\ pc = "collide"
  /\ collisions = <<>>
  /\ LET d == RngStep(rng)
         spawn == difficulty.bhEnabled /\ 10000 * d < difficulty.bhSpawnRate * RngMod
         sp == spawnBlackHole(d, nextEntityId, wave, difficulty)
         rng1 == IF spawn THEN sp.rng ELSE IF difficulty.bhEnabled THEN d ELSE rng
         id1 == IF spawn THEN nextEntityId + 1 ELSE nextEntityId
         holes == IF spawn THEN Append(blackHoles, sp.bh) ELSE blackHoles
         kept == RemoveInactive(asteroids)
         e == [asteroids |-> kept, cap |-> asteroidsCap, rng |-> rng1,
               crand |-> crand, nextId |-> id1]
         e1 == IF kept = <<>> THEN spawnInitialAsteroids(e, wave + 1, difficulty) ELSE e
     IN  /\ asteroids' = e1.asteroids
         /\ asteroidsCap' = e1.cap
         /\ rng' = e1.rng
         /\ crand' = e1.crand
         /\ nextEntityId' = e1.nextId
         /\ wave' = IF kept = <<>> THEN wave + 1 ELSE wave
         /\ blackHoles' = RemoveInactive(holes)
         /\ bullets' = RemoveInactive(bullets)
         /\ particles' = RemoveInactive(particles)
  /\ time' = time + DtTenths
  /\ ticks' = ticks + 1
  /\ pc' = "idle"
  /\ freed' = <<>>
  /\ handled' = [kind |-> "purged",
                 count |-> Len(SelectSeq(asteroids \o bullets \o blackHoles \o particles,
                                         LAMBDA x : ~x.active)),
                 log |-> handled.log]
  /\ UNCHANGED <<ships, seed, mode, currentLevel, difficulty, inputs,
                 collisions, calls>>

\* ------------------------------------------------------------------- Spec
Next ==
  \/ Reset
  \/ SetMode
  \/ SetLevel
  \/ SetDifficulty
  \/ SetBlackHolesEnabled
  \/ SetShipMass
  \/ SetBulletMass
  \/ SetAsteroidBaseMass
  \/ SetInput
  \/ StepBegin
  \/ ResolvePair
  \/ StepEnd

Spec == Init /\ [][Next]_vars

\* ------------------------------------------------------------ SpecBatch
\* The engine inside handleCollisions, the batch of its second tick just
\* detected, in a wave-1 world chosen for what overlaps: the asteroids are
\* those reset() spawns (wrapped into the domain, as the drift leaves them),
\* the ship has shipLives lives and no invulnerability left, a bullet of
\* player 0 lies on asteroid shot (0: no bullet), and a black hole lies on
\* the ship (hole = 1) or on asteroid hole - 1 (0: no black hole).
InitBatch ==
  \E d \in DifficultyChoices, sd \in SeedChoices, shot \in 0..2, hole \in 0..3,
     shipLives \in {1, ShipLives} :
    LET e == reset("SOLO", d, sd, 0, CRandSeed)
        rocks == [i \in 1..Len(e.asteroids) |->
                    [e.asteroids[i] EXCEPT !.pos = wrapPosition(@, WorldWidth, WorldHeight)]]
        ship == [ResetShips("SOLO", d)[1] EXCEPT !.invulnerable = FALSE,
                                                !.invulnerableTime = 0,
                                                !.lives = shipLives]
        bullet == [BulletInit(e.nextId, rocks[shot].pos, <<0, 0>>, 0)
                     EXCEPT !.mass = d.bulletMass]
        sp == spawnBlackHole(e.rng, e.nextId + 1, 1, d)
        hpos == IF hole = 1 THEN ship.pos ELSE rocks[hole - 1].pos
        w == [ships |-> <<ship>>,
              asteroids |-> rocks,
              bullets |-> IF shot = 0 THEN <<>> ELSE <<bullet>>,
              blackHoles |-> IF hole = 0 THEN <<>> ELSE <<[sp.bh EXCEPT !.pos = hpos]>>]
    IN  /\ ships = w.ships
        /\ asteroids = w.asteroids
        /\ asteroidsCap = e.cap
        /\ bullets = w.bullets
        /\ blackHoles = w.blackHoles
        /\ particles = <<>>
        /\ time = DtTenths
        /\ wave = 1
        /\ seed = sd
        /\ rng = sp.rng
        /\ crand = e.crand
        /\ mode = "SOLO"
        /\ currentLevel = 0
        /\ difficulty = d
        /\ inputs = <<NoInput, NoInput>>
        /\ nextEntityId = e.nextId + 2
        /\ pc = "collide"
        /\ collisions = detectCollisions(w)
        /\ freed = <<>>
        /\ handled = NoHandled
        /\ ticks = 1
        /\ calls = 0

NextBatch ==
  \/ StepBegin
  \/ ResolvePair
  \/ StepEnd

SpecBatch == InitBatch /\ [][NextBatch]_vars

\* ------------------------------------------------------ exact arithmetic
\* The bounce handlers once more, in exact rational arithmetic: a number is
\* [n, d] in lowest terms with d > 0, a vector a pair of numbers.
RECURSIVE Gcd(_, _)
Gcd(a, b) == IF b = 0 THEN a ELSE Gcd(b, a % b)

QNorm(n, d) == LET g == Gcd(Abs(n), d) IN [n |-> n \div g, d |-> d \div g]

Q(i) == [n |-> i, d |-> 1]

\* sums over the least common denominator, products after cancelling across
QAdd(a, b) ==
  LET g == Gcd(a.d, b.d)
  IN  QNorm(a.n * (b.d \div g) + b.n * (a.d \div g), (a.d \div g) * b.d)

QSub(a, b) == QAdd(a, [n |-> -b.n, d |-> b.d])

QMul(a, b) ==
  LET g1 == Gcd(Abs(a.n), b.d)
      g2 == Gcd(Abs(b.n), a.d)
  IN  QNorm((a.n \div g1) * (b.n \div g2), (a.d \div g2) * (b.d \div g1))

\* a / b for b # 0
QDiv(a, b) == IF b.n > 0 THEN QMul(a, [n |-> b.d, d |-> b.n])
              ELSE QMul(a, [n |-> -b.d, d |-> -b.n])

QLt(a, b) == a.n * b.d < b.n * a.d

\* std::sqrt: exact on the square of a rational (all that a Pythagorean
\* offset gives it), rounded down in both terms otherwise
QSqrt(a) == QNorm(ISqrt(a.n), Max(ISqrt(a.d), 1))

QVec(v) == <<Q(v[1]), Q(v[2])>>

QVAdd(a, b) == <<QAdd(a[1], b[1]), QAdd(a[2], b[2])>>

QVSub(a, b) == <<QSub(a[1], b[1]), QSub(a[2], b[2])>>

QVScale(a, s) == <<QMul(a[1], s), QMul(a[2], s)>>

QVDiv(a, s) == <<QDiv(a[1], s), QDiv(a[2], s)>>

QDot(a, b) == QAdd(QMul(a[1], b[1]), QMul(a[2], b[2]))

\* minimumImage on rationals
minimumImageQ(dr, w, h) ==
  LET x1 == IF QLt(QNorm(w, 2), dr[1]) THEN QSub(dr[1], Q(w)) ELSE dr[1]
      x2 == IF QLt(x1, QNorm(-w, 2)) THEN QAdd(x1, Q(w)) ELSE x1
      y1 == IF QLt(QNorm(h, 2), dr[2]) THEN QSub(dr[2], Q(h)) ELSE dr[2]
      y2 == IF QLt(y1, QNorm(-h, 2)) THEN QAdd(y1, Q(h)) ELSE y1
  IN  <<x2, y2>>

\* the while loops of wrapPosition on one coordinate: x minus the whole
\* number of widths that brings it into [0, w)
QWrap(x, w) == QSub(x, Q(w * ((x.n \div x.d) \div w)))

wrapPositionQ(pos, w, h) == <<QWrap(pos[1], w), QWrap(pos[2], h)>>

\* the 1e-6f below which the bounce handlers take the centres to coincide
Coincident(dist) == QLt(dist, QNorm(1, 1000000))

\* a bounce of restitution 0: the impulse only cancels the approach
handleShipShipInelastic(ship1, ship2) ==
  LET dr == minimumImageQ(QVSub(ship2.pos, ship1.pos), WorldWidth, WorldHeight)
      dist == QSqrt(QDot(dr, dr))
      normal == QVDiv(dr, dist)
      velAlongNormal == QDot(QVSub(ship2.vel, ship1.vel), normal)
      impulse == QDiv(QMul(Q(-1), velAlongNormal), Q(2))
  IN  IF Coincident(dist) THEN <<ship1, ship2>>
      ELSE IF QLt(Q(0), velAlongNormal) THEN <<ship1, ship2>>
      ELSE <<[ship1 EXCEPT !.vel = QVSub(@, QVScale(normal, impulse))],
             [ship2 EXCEPT !.vel = QVAdd(@, QVScale(normal, impulse))]>>

\* CollisionHandler::handleShipShip: the two ships after the call
handleShipShipQ(ship1, ship2) ==
  LET dr == minimumImageQ(QVSub(ship2.pos, ship1.pos), WorldWidth, WorldHeight)
      dist == QSqrt(QDot(dr, dr))
      normal == QVDiv(dr, dist)
      relVel == QVSub(ship2.vel, ship1.vel)
      velAlongNormal == QDot(relVel, normal)
      impulse == QDiv(QMul(Q(-2), velAlongNormal), Q(2))
      overlap == QSub(Q(ship1.radius + ship2.radius), dist)
      separation == QVScale(normal, QMul(overlap, QNorm(1, 2)))
      apart == QLt(Q(0), overlap)
  IN  IF Coincident(dist) THEN <<ship1, ship2>>
      ELSE IF QLt(Q(0), velAlongNormal) THEN <<ship1, ship2>>
      ELSE <<[ship1 EXCEPT
                !.vel = QVSub(@, QVScale(normal, impulse)),
                !.pos = IF apart
                        THEN wrapPositionQ(QVSub(@, separation), WorldWidth, WorldHeight)
                        ELSE @],
             [ship2 EXCEPT
                !.vel = QVAdd(@, QVScale(normal, impulse)),
                !.pos = IF apart
                        THEN wrapPositionQ(QVAdd(@, separation), WorldWidth, WorldHeight)
                        ELSE @]>>

\* the equal-mass response given to asteroids
handleAsteroidAsteroidEqual(a1, a2) == handleShipShipQ(a1, a2)

\* CollisionHandler::handleAsteroidAsteroid: the two asteroids after the call
handleAsteroidAsteroidQ(a1, a2) ==
  LET dr == minimumImageQ(QVSub(a2.pos, a1.pos), WorldWidth, WorldHeight)
      dist == QSqrt(QDot(dr, dr))
      normal == QVDiv(dr, dist)
      relVel == QVSub(a2.vel, a1.vel)
      velAlongNormal == QDot(relVel, normal)
      m1 == Q(a1.mass)
      m2 == Q(a2.mass)
      totalMass == QAdd(m1, m2)
      restitution == Q(1)
      impulse == QDiv(QMul(QSub(Q(0), QAdd(Q(1), restitution)), velAlongNormal),
                      QAdd(QDiv(Q(1), m1), QDiv(Q(1), m2)))
      overlap == QSub(Q(a1.radius + a2.radius), dist)
      separation1 == QMul(overlap, QDiv(m2, totalMass))
      separation2 == QMul(overlap, QDiv(m1, totalMass))
      apart == QLt(Q(0), overlap)
  IN  IF Coincident(dist) THEN <<a1, a2>>
      ELSE IF QLt(Q(0), velAlongNormal) THEN <<a1, a2>>
      ELSE <<[a1 EXCEPT
                !.vel = QVSub(@, QVScale(normal, QDiv(impulse, m1))),
                !.pos = IF apart
                        THEN wrapPositionQ(QVSub(@, QVScale(normal, separation1)),
                                           WorldWidth, WorldHeight)
                        ELSE @],
             [a2 EXCEPT
                !.vel = QVAdd(@, QVScale(normal, QDiv(impulse, m2))),
                !.pos = IF apart
                        THEN wrapPositionQ(QVAdd(@, QVScale(normal, separation2)),
                                           WorldWidth, WorldHeight)
                        ELSE @]>>

\* ------------------------------------------------------------ SpecBounce
\* One ship-ship or asteroid-asteroid pair of a batch and its resolution.
\* The first body lies mid-domain or by a corner, the second at an offset
\* from it whose length is rational, wrapped into the domain; the pair is
\* one that detectCollisions reports.
BouncePositions == {<<WorldWidth \div 2, WorldHeight \div 2>>, <<WorldWidth - 3, 2>>}

BounceOffsets == {<<6, 8>>, <<12, 5>>, <<-3, 4>>, <<0, 7>>, <<-9, 0>>, <<7, 24>>, <<0, 0>>}

BounceVelocities == {<<0, 0>>, <<3, -1>>, <<-2, 1>>, <<-3, -4>>}

BounceSizes == {0, 1, 2}

\* a body with its position and velocity as rationals
Exact(body) == [body EXCEPT !.pos = QVec(@), !.vel = QVec(@)]

InitBounce ==
  \E kind \in {"ships", "asteroids"}, p1 \in BouncePositions, off \in BounceOffsets,
     v1 \in {<<0, 0>>, <<3, -1>>}, v2 \in BounceVelocities,
     s1 \in BounceSizes, s2 \in BounceSizes :
    LET p2 == wrapPosition(VAdd(p1, off), WorldWidth, WorldHeight)
        two == IF kind = "ships"
               THEN <<[ShipInit(0, p1, 0) EXCEPT !.vel = v1],
                      [ShipInit(1, p2, 1) EXCEPT !.vel = v2]>>
               ELSE <<AsteroidInit(0, p1, v1, s1, DefaultAsteroidBaseMass),
                      AsteroidInit(1, p2, v2, s2, DefaultAsteroidBaseMass)>>
        w == [ships |-> IF kind = "ships" THEN two ELSE <<>>,
              asteroids |-> IF kind = "asteroids" THEN two ELSE <<>>,
              bullets |-> <<>>, blackHoles |-> <<>>]
    IN  /\ kind = "ships" => s1 = 0 /\ s2 = 0
        /\ detectCollisions(w) # <<>>
        /\ ships = [i \in 1..Len(w.ships) |-> Exact(w.ships[i])]
        /\ asteroids = [i \in 1..Len(w.asteroids) |-> Exact(w.asteroids[i])]
        /\ asteroidsCap = Len(w.asteroids)
        /\ bullets = <<>>
        /\ blackHoles = <<>>
        /\ particles = <<>>
        /\ time = 0
        /\ wave = 1
        /\ seed = 1
        /\ rng = 1
        /\ crand = CRandSeed
        /\ mode = IF kind = "ships" THEN "COOP" ELSE "SOLO"
        /\ currentLevel = 0
        /\ difficulty = DefaultDifficulty
        /\ inputs = <<NoInput, NoInput>>
        /\ nextEntityId = 2
        /\ pc = "bounce"
        /\ collisions = detectCollisions(w)
        /\ freed = <<>>
        /\ handled = NoHandled
        /\ ticks = 0
        /\ calls = 0

\* the loop of handleCollisions on a ship-ship pair
BounceShips ==
  /\ pc = "bounce"
  /\ collisions # <<>>
  /\ Dispatch(Head(collisions)) = "shipShip"
  /\ LET pair == Head(collisions)
         out == handleShipShipQ(ships[pair.a.i], ships[pair.b.i])
     IN  /\ ships' = [ships EXCEPT ![pair.a.i] = out[1], ![pair.b.i] = out[2]]
         /\ handled' = [kind |-> "shipShip", pair |-> pair,
                        bodyA |-> ships[pair.a.i], bodyB |-> ships[pair.b.i],
                        log |-> Append(handled.log, pair)]
  /\ collisions' = Tail(collisions)
  /\ pc' = IF Len(collisions) = 1 THEN "bounced" ELSE pc
  /\ UNCHANGED <<asteroids, bullets, blackHoles, particles, asteroidsCap, time,
                 wave, seed, rng, crand, mode, currentLevel, difficulty, inputs,
                 nextEntityId, freed, ticks, calls>>

\* the loop of handleCollisions on an asteroid-asteroid pair
BounceAsteroids ==
  /\ pc = "bounce"
  /\ collisions # <<>>
  /\ Dispatch(Head(collisions)) = "asteroidAsteroid"
  /\ LET pair == Head(collisions)
         out == handleAsteroidAsteroidQ(asteroids[pair.a.i], asteroids[pair.b.i])
     IN  /\ asteroids' = [asteroids EXCEPT ![pair.a.i] = out[1], ![pair.b.i] = out[2]]
         /\ handled' = [kind |-> "asteroidAsteroid", pair |-> pair,
                        bodyA |-> asteroids[pair.a.i], bodyB |-> asteroids[pair.b.i],
                        log |-> Append(handled.log, pair)]
  /\ collisions' = Tail(collisions)
  /\ pc' = IF Len(collisions) = 1 THEN "bounced" ELSE pc
  /\ UNCHANGED <<ships, bullets, blackHoles, particles, asteroidsCap, time,
                 wave, seed, rng, crand, mode, currentLevel, difficulty, inputs,
                 nextEntityId, freed, ticks, calls>>

NextBounce ==
  \/ BounceShips
  \/ BounceAsteroids

SpecBounce == InitBounce /\ [][NextBounce]_vars

\* ------------------------------------------------------------- properties
AllActive(coll) == \A i \in 1..Len(coll) : coll[i].active

HandlerKinds == {"shipAsteroid", "shipShip", "asteroidAsteroid", "bulletAsteroid",
                 "accretion"}

NowA == World[handled.pair.a.k][handled.pair.a.i]

NowB == World[handled.pair.b.k][handled.pair.b.i]

\* the particles the iteration appended
NewParticles == SubSeq(particles, handled.nParticles + 1, Len(particles))

\* the asteroids the iteration appended
NewAsteroids == SubSeq(asteroids, handled.nAsteroids + 1, Len(asteroids))

\* the body a handler run for the pair consumes: the bullet of the pair
ConsumedBullet(pair) == IF pair.a.k = "bullets" THEN {pair.a.i} ELSE {}

\* ... and the asteroid the pair splits, destroys or feeds to a black hole
ConsumedAsteroid(pair) ==
  IF pair.a.k = "bullets" /\ pair.b.k = "asteroids" THEN {pair.b.i}
  ELSE IF pair.a.k = "asteroids" /\ pair.b.k = "blackHoles" THEN {pair.a.i}
  ELSE {}

\* C2 (as stated): within a batch no handler runs for a pair one of whose
\* bodies is inactive at that moment, so that over the batch no bullet is
\* consumed by two handler runs and no asteroid is split, destroyed or
\* accreted by two handler runs.
C2_SkipsDeactivated ==
  handled.kind \in HandlerKinds =>
    /\ handled.bodyA.active /\ handled.bodyB.active
    /\ \A m, n \in 1..Len(handled.log) :
         m < n =>
           /\ ConsumedBullet(handled.log[m]) \cap ConsumedBullet(handled.log[n]) = {}
           /\ ConsumedAsteroid(handled.log[m]) \cap ConsumedAsteroid(handled.log[n]) = {}

\* C3 (as stated): after handleBulletAsteroid has run for a pair, its bullet
\* and its asteroid are inactive; for a size class below 5 exactly two active
\* asteroids of the next class, each of half the parent's mass, have been
\* appended, and for size class 5 none.
C3_SplitDeactivatesBoth ==
  handled.kind = "bulletAsteroid" =>
    /\ ~NowA.active
    /\ ~NowB.active
    /\ IF handled.bodyB.size < TerminalSize
       THEN /\ Len(NewAsteroids) = 2
            /\ \A j \in 1..Len(NewAsteroids) :
                 /\ NewAsteroids[j].active
                 /\ NewAsteroids[j].size = handled.bodyB.size + 1
                 /\ 2 * NewAsteroids[j].mass = handled.bodyB.mass
       ELSE Len(NewAsteroids) = 0

\* the two outcomes for a ship that a handler costs a life: out of lives and
\* inactive, or alive, invulnerable for 3.0 s, at the centre and at rest
LostALife(before, after) ==
  /\ after.lives = before.lives - 1
  /\ IF after.lives = 0
     THEN ~after.active
     ELSE /\ after.active
          /\ after.invulnerable
          /\ after.invulnerableTime = InvulnerableTenths
          /\ after.pos = <<WorldWidth \div 2, WorldHeight \div 2>>
          /\ after.vel = <<0, 0>>

\* C4: after handleShipAsteroid has run for a pair the ship has exactly one
\* life less and the asteroid is as it was; a ship left without lives is
\* inactive and 50 + 40 particles were emitted, any other ship is active,
\* invulnerable for 3.0 s, at the domain centre with zero velocity, and 40
\* particles were emitted.
C4_ShipAsteroid ==
  handled.kind = "shipAsteroid" =>
    /\ LostALife(handled.bodyA, NowA)
    /\ NowB = handled.bodyB
    /\ Len(asteroids) = handled.nAsteroids
    /\ Len(NewParticles) = IF NowA.lives = 0 THEN 90 ELSE 40

\* a ship-asteroid pair was resolved for a ship on its last life
C4_Witness == handled.kind = "shipAsteroid" /\ handled.bodyA.lives = 1 /\ ~NowA.active

\* C5: in every reachable state each ship has 0..3 lives, a ship with no
\* lives is inactive and an active ship has at least one life.
C5_Lives ==
  \A i \in 1..Len(ships) :
    /\ ships[i].lives \in 0..ShipLives
    /\ ships[i].lives = 0 => ~ships[i].active
    /\ ships[i].active => ships[i].lives >= 1

\* a ship has lost its last life
C5_Witness == \E i \in 1..Len(ships) : ships[i].lives = 0 /\ ~ships[i].active

JustDetected == pc = "collide" /\ handled.kind = "none"

\* the type combinations the detector tests, first member first
Combinations ==
  {<<"ships", "asteroids">>, <<"ships", "ships">>, <<"asteroids", "asteroids">>,
   <<"bullets", "asteroids">>, <<"ships", "blackHoles">>,
   <<"asteroids", "blackHoles">>, <<"bullets", "blackHoles">>}

SameBodies(p, q) ==
  \/ p.a = q.a /\ p.b = q.b
  \/ p.a = q.b /\ p.b = q.a

\* C7: every pair detectCollisions outputs is ship-asteroid, ship-ship,
\* asteroid-asteroid, bullet-asteroid or {ship, asteroid, bullet}-black hole,
\* its two members are distinct bodies active at detection, and no two
\* entries of the output are the same unordered pair.
C7_PairTypes ==
  JustDetected =>
    \A n \in 1..Len(collisions) :
      /\ <<collisions[n].a.k, collisions[n].b.k>> \in Combinations
      /\ collisions[n].a # collisions[n].b
      /\ World[collisions[n].a.k][collisions[n].a.i].active
      /\ World[collisions[n].b.k][collisions[n].b.i].active
      /\ \A m \in 1..Len(collisions) :
           m # n => ~SameBodies(collisions[m], collisions[n])

\* a batch with a same-type pair and a pair of two types
C7_Witness ==
  /\ JustDetected
  /\ \E n \in 1..Len(collisions) : collisions[n].a.k = collisions[n].b.k
  /\ \E n \in 1..Len(collisions) : collisions[n].a.k # collisions[n].b.k

\* the unordered pairs of the batch
Detected == {{collisions[n].a, collisions[n].b} : n \in 1..Len(collisions)}

\* every two distinct bodies of a tested combination, as [a, b]
Candidates ==
  {q \in UNION {{[a |-> Ref(c[1], i), b |-> Ref(c[2], j)] :
                   i \in 1..Len(World[c[1]]), j \in 1..Len(World[c[2]])} :
                c \in Combinations} :
     q.a.k = q.b.k => q.a.i < q.b.i}

BodyA(q) == World[q.a.k][q.a.i]

BodyB(q) == World[q.b.k][q.b.i]

\* the squared length of the displacement from x to y, reduced to its
\* minimum image when periodic is set
Dist2(x, y, periodic) ==
  LengthSquared(IF periodic
                THEN minimumImage(VSub(y.pos, x.pos), WorldWidth, WorldHeight)
                ELSE VSub(y.pos, x.pos))

\* the overlap test on a squared distance d2: against the accretion radius
\* for a black hole, else against the sum of the radii
Within(q, d2) ==
  IF q.b.k = "blackHoles"
  THEN BodyB(q).accretionRadius > 0
       /\ d2 < BodyB(q).accretionRadius * BodyB(q).accretionRadius
  ELSE d2 < (BodyA(q).radius + BodyB(q).radius) * (BodyA(q).radius + BodyB(q).radius)

\* C8 (as the code has it): two active bodies of a tested combination are a
\* pair of the output if and only if they are closer than the sum of their
\* radii (a body and a black hole: closer than the accretion radius) and are
\* not an invulnerable ship and an asteroid, which are never output.  The
\* distance is that of the minimum image whenever the first body wraps,
\* black-hole pairs included.
C8_OverlappingPairs ==
  JustDetected =>
    \A q \in Candidates :
      {q.a, q.b} \in Detected <=>
        /\ BodyA(q).active /\ BodyB(q).active
        /\ ~(q.a.k = "ships" /\ q.b.k = "asteroids" /\ BodyA(q).invulnerable)
        /\ Within(q, Dist2(BodyA(q), BodyB(q), BodyA(q).wraps))

\* an invulnerable ship overlaps an asteroid and the batch has other pairs
C8_Witness ==
  /\ JustDetected
  /\ collisions # <<>>
  /\ \E q \in Candidates :
       /\ q.a.k = "ships" /\ q.b.k = "asteroids"
       /\ BodyA(q).active /\ BodyB(q).active /\ BodyA(q).invulnerable
       /\ Within(q, Dist2(BodyA(q), BodyB(q), TRUE))

\* C8 as stated: two active bodies of a tested combination are a pair of the
\* output if and only if they are closer than the sum of their radii (the
\* accretion radius for a black hole), the distance being that of the
\* minimum image when both bodies wrap
C8_IffOverlap ==
  JustDetected =>
    \A q \in Candidates :
      {q.a, q.b} \in Detected <=>
        /\ BodyA(q).active /\ BodyB(q).active
        /\ Within(q, Dist2(BodyA(q), BodyB(q), BodyA(q).wraps /\ BodyB(q).wraps))


\* ---- properties of the bounce handlers, read after the pair's resolution:
\* handled holds the two bodies as they were, NowA and NowB as they are
Bounced == pc = "bounced" /\ handled.kind \in {"shipShip", "asteroidAsteroid"}

\* the minimum-image offset of the pair before the handler, and its length
OffsetBefore ==
  minimumImageQ(QVSub(handled.bodyB.pos, handled.bodyA.pos), WorldWidth, WorldHeight)

DistanceBefore == QSqrt(QDot(OffsetBefore, OffsetBefore))

\* the relative velocity of b against a along the normal the pair had
AlongNormal(a, b) == QDot(QVSub(b.vel, a.vel), QVDiv(OffsetBefore, DistanceBefore))

Separating ==
  ~Coincident(DistanceBefore) /\ QLt(Q(0), AlongNormal(handled.bodyA, handled.bodyB))

\* m1 * v1 + m2 * v2
Momentum(a, b) == QVAdd(QVScale(a.vel, Q(a.mass)), QVScale(b.vel, Q(b.mass)))

SameBuild(x, y) == x.mass = y.mass /\ x.radius = y.radius /\ x.active = y.active

IdsOf(coll) == [i \in 1..Len(coll) |-> coll[i].id]

\* new holds every element of old, at the same index (elements may have been
\* appended after them)
KeepsAll(old, new) ==
  /\ Len(new) >= Len(old)
  /\ SubSeq(IdsOf(new), 1, Len(old)) = IdsOf(old)

\* the transition erases no element of any of the five collections
NothingRemoved ==
  /\ KeepsAll(ships, ships')
  /\ KeepsAll(asteroids, asteroids')
  /\ KeepsAll(bullets, bullets')
  /\ KeepsAll(blackHoles, blackHoles')
  /\ Len(particles') >= Len(particles)

\* the transition is the part of step() after handleCollisions has returned
IsSweep == pc = "collide" /\ collisions = <<>> /\ pc' = "idle"

\* the transition is a call of reset(), directly or from setMode
IsReset == pc = "idle" /\ calls' = calls + 1 /\ time' = 0 /\ wave' = 1
           /\ nextEntityId' = Len(ships') + Len(asteroids')

\* C11: from the start of a tick to the resolution of the last pair of its
\* batch no element leaves any of the five entity collections; an element
\* leaves a collection only in the end-of-tick sweep or in a reset.
C11_RemovalOnlyInSweep ==
  [][NothingRemoved \/ IsSweep \/ IsReset]_vars

\* inside handleCollisions, a handler has deactivated an entity, which is
\* still held by its collection
C11_Witness ==
  /\ pc = "collide"
  /\ handled.kind \in HandlerKinds
  /\ \/ ~AllActive(bullets)
     \/ ~AllActive(asteroids)
     \/ ~AllActive(ships)


\* the state is the one applyPhysics and detectCollisions of a tick have
\* left, or the one in which a build of the tick never returns
Integrated ==
  /\ pc \in {"collide", "stalled"}
  /\ handled.kind = "none"
  /\ "integration" \in DOMAIN handled

OpsOf(log) == [i \in 1..Len(log) |-> log[i].op]

\* the log is that of a kick-drift-kick integration: build, half-kick, drift,
\* rebuild, half-kick, all over the bodies collected at the start, both
\* builds returned, and each kick querying a tree that holds the bodies as
\* they are when it queries
InOrder(log) ==
  /\ OpsOf(log) = <<"build", "kick", "drift", "build", "kick">>
  /\ \A i \in 1..Len(log) : log[i].ids = log[1].ids
  /\ log[1].returned /\ log[4].returned
  /\ log[2].tree = log[2].at
  /\ log[5].tree = log[5].at

\* C12 (as stated): the integration of every tick is build, half-kick,
\* drift, rebuild, half-kick; the tree is built exactly twice, over the
\* bodies active at the start of the integration, and every acceleration
\* query is answered by a tree built from the positions current at the query.
C12_KickDriftKick == Integrated => InOrder(handled.integration)

\* the same for the ticks whose two builds return
IntegrationReturned == (Integrated /\ pc = "collide") => InOrder(handled.integration)

\* an integration has returned in which the drift has moved a body
IntegrationMoved ==
  /\ Integrated /\ pc = "collide"
  /\ handled.integration[2].at # handled.integration[5].at


\* ----------------------------------------------------------- SpecPeriodic
\* The two periodic-boundary utilities as pure functions: one call of each,
\* on positions a and b and a domain w x h drawn at the start.  Coordinates
\* run over more than two extents either side of the domain, and the extents
\* are one even and one odd, so that a displacement of exactly half an extent
\* occurs.
MaxCoord == 11

PeriodicCoords == (-MaxCoord)..MaxCoord

PeriodicOrigins == {<<0, 0>>, <<3, -2>>, <<-9, 5>>}

PeriodicExtents == {4, 7}

InitPeriodic ==
  \E ax \in PeriodicCoords, ay \in PeriodicCoords, b \in PeriodicOrigins,
     w \in PeriodicExtents, h \in PeriodicExtents :
    /\ handled = [kind |-> "none", log |-> <<>>, a |-> <<ax, ay>>, b |-> b,
                  w |-> w, h |-> h]
    /\ pc = "periodic"
    /\ ships = <<>>
    /\ asteroids = <<>>
    /\ asteroidsCap = 0
    /\ bullets = <<>>
    /\ blackHoles = <<>>
    /\ particles = <<>>
    /\ time = 0
    /\ wave = 1
    /\ seed = 1
    /\ rng = 1
    /\ crand = CRandSeed
    /\ mode = "SOLO"
    /\ currentLevel = 0
    /\ difficulty = DefaultDifficulty
    /\ inputs = <<NoInput, NoInput>>
    /\ nextEntityId = 0
    /\ collisions = <<>>
    /\ freed = <<>>
    /\ ticks = 0
    /\ calls = 0

\* wrapPosition(a, w, h), and wrapPosition of its result
CallWrapPosition ==
  /\ pc = "periodic"
  /\ pc' = "wrapped"
  /\ LET once == wrapPosition(handled.a, handled.w, handled.h)
     IN  handled' = [kind |-> "wrapped", log |-> <<>>, a |-> handled.a,
                     w |-> handled.w, h |-> handled.h, once |-> once,
                     twice |-> wrapPosition(once, handled.w, handled.h)]
  /\ UNCHANGED <<ships, asteroids, bullets, blackHoles, particles, asteroidsCap,
                 time, wave, seed, rng, crand, mode, currentLevel, difficulty,
                 inputs, nextEntityId, collisions, freed, ticks, calls>>

\* minimumImage(a - b, w, h) and minimumImage(b - a, w, h)
CallMinimumImage ==
  /\ pc = "periodic"
  /\ pc' = "imaged"
  /\ handled' = [kind |-> "imaged", log |-> <<>>, a |-> handled.a, b |-> handled.b,
                 w |-> handled.w, h |-> handled.h,
                 forth |-> minimumImage(VSub(handled.a, handled.b), handled.w, handled.h),
                 back |-> minimumImage(VSub(handled.b, handled.a), handled.w, handled.h)]
  /\ UNCHANGED <<ships, asteroids, bullets, blackHoles, particles, asteroidsCap,
                 time, wave, seed, rng, crand, mode, currentLevel, difficulty,
                 inputs, nextEntityId, collisions, freed, ticks, calls>>

NextPeriodic ==
  \/ CallWrapPosition
  \/ CallMinimumImage

SpecPeriodic == InitPeriodic /\ [][NextPeriodic]_vars

\* C13: for a domain of positive extents the result of wrapPosition lies in
\* [0, w) x [0, h), and wrapping the result again returns it unchanged.
C13_WrapIdempotent ==
  pc = "wrapped" =>
    /\ 0 <= handled.once[1] /\ handled.once[1] < handled.w
    /\ 0 <= handled.once[2] /\ handled.once[2] < handled.h
    /\ handled.twice = handled.once

\* a position more than one extent outside the domain on both axes, one
\* below and one above, has been wrapped
C13_Witness ==
  /\ pc = "wrapped"
  /\ handled.a[1] < -handled.w
  /\ handled.a[2] >= 2 * handled.h
  /\ handled.once # handled.a

\* C14: minimumImage(a - b, w, h) = -minimumImage(b - a, w, h), also when a
\* component of a - b is exactly half the extent.
C14_MinimumImageAntisymmetric ==
  pc = "imaged" => handled.forth = VScale(handled.back, -1)

\* the minimum image was taken of a displacement whose x component is exactly
\* half the width, and was that displacement itself
C14_Witness ==
  /\ pc = "imaged"
  /\ 2 * (handled.a[1] - handled.b[1]) = handled.w
  /\ handled.forth[1] = handled.a[1] - handled.b[1]


\* ------------------------------------------------------------- SpecVolley
\* The engine as setDifficulty, setMode and setInput leave it after
\* construction: the asteroids of wave 1 respawned by the reset of setMode
\* under the chosen difficulty, and the same input stored for both players,
\* with made of the calls of a behaviour used up.
InitConfigured(made) ==
  \E m \in ModeChoices, d \in DifficultyChoices, sd \in SeedChoices,
     input \in InputChoices :
    LET e0 == reset("SOLO", DefaultDifficulty, sd, 0, CRandSeed)
        e == reset(m, d, sd, e0.cap, e0.crand)
    IN  /\ ships = ResetShips(m, d)
        /\ asteroids = e.asteroids
        /\ asteroidsCap = e.cap
        /\ bullets = <<>>
        /\ blackHoles = <<>>
        /\ particles = <<>>
        /\ time = 0
        /\ wave = 1
        /\ seed = sd
        /\ rng = e.rng
        /\ crand = e.crand
        /\ mode = m
        /\ currentLevel = 0
        /\ difficulty = d
        /\ inputs = <<input, input>>
        /\ nextEntityId = e.nextId
        /\ pc = "idle"
        /\ collisions = <<>>
        /\ freed = <<>>
        /\ handled = NoHandled
        /\ ticks = 0
        /\ calls = made

\* from there only step() is called
InitVolley == InitConfigured(MaxCalls)

NextVolley ==
  \/ StepBegin
  \/ ResolvePair
  \/ StepEnd

SpecVolley == InitVolley /\ [][NextVolley]_vars

\* -------------------------------------------------------------- SpecQuery
\* The render accessors and setInput as functions of the engine's state and
\* their argument: one call of one of them on a configured engine.
InitQuery == InitConfigured(0)

NextQuery ==
  \/ GetData
  \/ SetInput

SpecQuery == InitQuery /\ [][NextQuery]_vars

\* ---- properties of the bullets
\* ceil(n / d) for positive d
CeilDiv(n, d) == (n + d - 1) \div d

\* the ticks a bullet has been updated in: each update takes one dt off the
\* lifetime it was fired with
UpdatesOf(b) == (BulletLifeTenths - b.lifetime) \div DtTenths

\* what holds of every bullet in every state: its lifetime is the initial one
\* less a whole number of dt, at most ceil(maxLifetime / dt) of them; once
\* the lifetime is used up the bullet is inactive; and between two steps
\* every bullet held is active with lifetime left
BulletsExpire ==
  \A i \in 1..Len(bullets) :
    /\ (BulletLifeTenths - bullets[i].lifetime) % DtTenths = 0
    /\ UpdatesOf(bullets[i]) \in 0..CeilDiv(BulletLifeTenths, DtTenths)
    /\ bullets[i].lifetime <= 0 => ~bullets[i].active
    /\ pc = "idle" =>
         /\ bullets[i].active
         /\ bullets[i].lifetime > 0
         /\ UpdatesOf(bullets[i]) < CeilDiv(BulletLifeTenths, DtTenths)

\* what every transition does to the bullets: the first part of a step takes
\* dt off the lifetime of every active bullet held and appends the bullets
\* fired with the full lifetime; the handlers leave every lifetime alone
BulletsAge ==
  /\ (pc = "idle" /\ pc' # "idle") =>
       /\ Len(bullets') >= Len(bullets)
       /\ \A i \in 1..Len(bullets) :
            /\ bullets'[i].id = bullets[i].id
            /\ bullets[i].active =>
                 bullets'[i].lifetime = bullets[i].lifetime - DtTenths
       /\ \A i \in (Len(bullets) + 1)..Len(bullets') :
            bullets'[i].lifetime = BulletLifeTenths /\ bullets'[i].active
  /\ (pc = "collide" /\ pc' = "collide") =>
       /\ Len(bullets') = Len(bullets)
       /\ \A i \in 1..Len(bullets) : bullets'[i].lifetime = bullets[i].lifetime

\* C15: an active bullet's lifetime goes down by dt in every tick; in the
\* tick in which it reaches 0 or less the bullet is deactivated, and the
\* sweep of that tick removes it, so that no bullet is held after more than
\* ceil(maxLifetime / dt) ticks from the one it was fired in.
C15_BulletLifetime == [](BulletsExpire) /\ [][BulletsAge]_vars

\* inside a tick, a bullet whose lifetime has run out in this tick, after
\* ceil(maxLifetime / dt) updates, and which is no longer active
C15_Witness ==
  /\ pc = "collide"
  /\ \E i \in 1..Len(bullets) :
       /\ bullets[i].lifetime <= 0
       /\ ~bullets[i].active
       /\ UpdatesOf(bullets[i]) = CeilDiv(BulletLifeTenths, DtTenths)


\* ---- properties of the asteroids
\* every base mass the model ever configures
ConfiguredBaseMasses ==
  {DefaultAsteroidBaseMass} \cup {c.asteroidBaseMass : c \in DifficultyChoices}
    \cup MassChoices

\* the asteroid is of a size class 0..5 and has the radius of its class
WellSized(a) == a.size \in 0..5 /\ a.radius = AsteroidRadius(a.size)

\* every asteroid of asts has the mass of its class under the base mass
MassesFollow(asts, baseMass) ==
  \A i \in 1..Len(asts) : asts[i].mass * Pow2(asts[i].size) = baseMass

\* the transition is a call of setDifficulty: the configuration changes and
\* no asteroid does
IsSetDifficulty == pc = "idle" /\ difficulty' # difficulty /\ asteroids' = asteroids

AllIdsOf(w) ==
  IdsOf(w.ships) \o IdsOf(w.asteroids) \o IdsOf(w.bullets) \o IdsOf(w.blackHoles)

IdSet(ids) == {ids[i] : i \in 1..Len(ids)}

\* the ids are pairwise different and all below next
IdsUnique(ids, next) ==
  /\ \A i, j \in 1..Len(ids) : i # j => ids[i] # ids[j]
  /\ \A i \in 1..Len(ids) : ids[i] < next

\* the transition hands the entities it adds the ids from nextEntityId on,
\* one each, and moves nextEntityId past them
FreshIds ==
  LET before == IdSet(AllIdsOf(World))
      after == IdSet(AllIdsOf([ships |-> ships', asteroids |-> asteroids',
                               bullets |-> bullets', blackHoles |-> blackHoles']))
  IN  /\ nextEntityId' >= nextEntityId
      /\ after \ before = nextEntityId..(nextEntityId' - 1)

\* C17: every ship, asteroid, bullet and black hole spawned gets an id above
\* every id handed out since the last reset, so that no two entities held in
\* the four collections share an id and nextEntityId is above all of them.
C17_UniqueIds ==
  /\ [](IdsUnique(AllIdsOf(World), nextEntityId))
  /\ [][IsReset \/ FreshIds]_vars

\* between two steps the engine holds a fragment of a split and a bullet
\* fired after that split
C17_Witness ==
  /\ pc = "idle"
  /\ \E i \in 1..Len(asteroids), j \in 1..Len(bullets) :
       asteroids[i].size > 0 /\ bullets[j].id > asteroids[i].id


\* ---- properties of reset()
\* the transition is a call of reset(), made directly or by setMode
ResetCalled ==
  /\ handled'.kind \in {"reset", "setMode"}
  /\ calls' = calls + 1
  /\ handled'.call = calls'

\* where and how fast the asteroids of a collection are
Placements(asts) == [i \in 1..Len(asts) |-> <<asts[i].pos, asts[i].vel>>]

\* the asteroids a construction with seed sd leaves when it spawns under the
\* difficulty diff
AtConstruction(sd, diff) == reset("SOLO", diff, sd, 0, CRandSeed).asteroids

CallMade(kind) ==
  /\ handled'.kind = kind
  /\ calls' = calls + 1
  /\ handled'.call = calls'

\* C19: an engine_get_*_data call with an index below 0 or not below the
\* size of its collection writes no slot of the output buffer and changes
\* nothing in the engine, and a setInput call with a player id other than 0
\* and 1 leaves the stored inputs as they were.
C19_OutOfRangeNoOp ==
  /\ [][(CallMade("getData")
           /\ (handled'.index < 0 \/ handled'.index >= handled'.size))
          => /\ handled'.out.slots = {}
             /\ UNCHANGED <<ships, asteroids, bullets, blackHoles, particles,
                            asteroidsCap, time, wave, seed, rng, crand, mode,
                            currentLevel, difficulty, inputs, nextEntityId>>]_vars
  /\ [][(CallMade("setInput") /\ handled'.playerId \notin {0, 1})
          => inputs' = inputs]_vars

\* an accessor has been called on a collection that holds entities, with the
\* index just past its last element
C19_Witness ==
  /\ handled.kind = "getData"
  /\ handled.size > 0
  /\ handled.index = handled.size
  /\ handled.out.slots = {}


\* --------------------------------------------------------------- SpecTree
\* The tree query as a pure function: a configuration of two to MaxBodies
\* bodies at pairwise distinct positions inside the domain is drawn at the
\* start, the tree is built over it, and one body is queried with theta = 0
\* or with the configured theta.  The positions include close neighbours
\* (nested subdivision), the centre and the origin (a body on a node
\* boundary), and bodies more than half a domain apart (the minimum image
\* folds).
MaxBodies == 3

TreePoints == {<<0, 0>>, <<10, 10>>, <<11, 10>>, <<100, 100>>, <<150, 150>>, <<151, 151>>}

TreeMasses == {1000, 3000}

\* the configurations of n bodies, as sequences of [pos, mass]
TreeBodies(n) ==
  {[i \in 1..n |-> [pos |-> q[i], mass |-> m[i]]] :
     q \in {x \in [1..n -> TreePoints] : \A i, j \in 1..n : i # j => x[i] # x[j]},
     m \in [1..n -> TreeMasses]}

InitTree ==
  \E n \in 2..MaxBodies :
    \E bodies \in TreeBodies(n), b \in 1..n :
      /\ handled = [kind |-> "none", log |-> <<>>, bodies |-> bodies, b |-> b]
      /\ pc = "tree"
      /\ ships = <<>>
      /\ asteroids = <<>>
      /\ asteroidsCap = 0
      /\ bullets = <<>>
      /\ blackHoles = <<>>
      /\ particles = <<>>
      /\ time = 0
      /\ wave = 1
      /\ seed = 1
      /\ rng = 1
      /\ crand = CRandSeed
      /\ mode = "SOLO"
      /\ currentLevel = 0
      /\ difficulty = DefaultDifficulty
      /\ inputs = <<NoInput, NoInput>>
      /\ nextEntityId = 0
      /\ collisions = <<>>
      /\ freed = <<>>
      /\ ticks = 0
      /\ calls = 0

\* the terms QuadTreeNode::calculateAcceleration adds up, in the order of its
\* recursion: for each the node's body (none for an internal node), whether
\* the node was taken as one far mass, and the term
RECURSIVE Contributions(_, _, _, _, _)
Contributions(node, pos, mass, thetaNum, thetaDen) ==
  IF node.totalMass = 0 THEN <<>>
  ELSE
    LET dr == minimumImage(VSub(node.centerOfMass, pos), WorldWidth, WorldHeight)
        r2 == LengthSquared(dr)
        s  == node.halfSize * 2
        term == SoftenedForce(dr, GravG * node.totalMass, GravEps)
    IN  IF node.isLeaf THEN
          IF node.body # <<>> /\ node.body[1].pos = pos /\ node.body[1].mass = mass
          THEN <<>>
          ELSE <<[far |-> FALSE, body |-> node.body, term |-> term]>>
        ELSE IF FarEnough(s, r2, thetaNum, thetaDen)
          THEN <<[far |-> TRUE, body |-> <<>>, term |-> term]>>
          ELSE Contributions(node.children[1], pos, mass, thetaNum, thetaDen)
                 \o Contributions(node.children[2], pos, mass, thetaNum, thetaDen)
                 \o Contributions(node.children[3], pos, mass, thetaNum, thetaDen)
                 \o Contributions(node.children[4], pos, mass, thetaNum, thetaDen)

\* QuadTree::build over the configuration, then QuadTree::calculateAcceleration
\* for body b with theta = 0 or physics.theta
CallCalculateAcceleration ==
  /\ pc = "tree"
  /\ pc' = "queried"
  /\ \E thetaNum \in {0, ThetaNum} :
     \E tree \in {build(handled.bodies)} :
       LET q == handled.bodies[handled.b]
       IN  handled' =
             [kind |-> "queried", log |-> <<>>, bodies |-> handled.bodies,
              b |-> handled.b, thetaNum |-> thetaNum, built |-> ~tree.overflow,
              tree |-> tree,
              acc |-> calculateAccelerationAt(tree, q.pos, q.mass, thetaNum, ThetaDen),
              terms |-> Contributions(tree, q.pos, q.mass, thetaNum, ThetaDen),
              depth |-> IF tree.isLeaf THEN 0
                        ELSE IF \A i \in 1..4 : tree.children[i].isLeaf THEN 1
                        ELSE 2]
  /\ UNCHANGED <<ships, asteroids, bullets, blackHoles, particles, asteroidsCap,
                 time, wave, seed, rng, crand, mode, currentLevel, difficulty,
                 inputs, nextEntityId, collisions, freed, ticks, calls>>

NextTree == CallCalculateAcceleration

SpecTree == InitTree /\ [][NextTree]_vars

\* ---- properties of the tree query
RECURSIVE VSum(_, _)
VSum(terms, i) == IF i > Len(terms) THEN <<0, 0>> ELSE VAdd(terms[i], VSum(terms, i + 1))

\* the softened contribution of the body other to the acceleration at pos
DirectTerm(other, pos) ==
  SoftenedForce(minimumImage(VSub(other.pos, pos), WorldWidth, WorldHeight),
                GravG * other.mass, GravEps)

\* the direct pairwise sum for body b of the configuration: every other body
\* once, b itself left out
DirectSum(bodies, b) ==
  VSum([j \in 1..Len(bodies) |->
          IF j = b THEN <<0, 0>> ELSE DirectTerm(bodies[j], bodies[b].pos)], 1)

\* a query with theta = 0 has returned, on a tree whose build has
Queried0 == pc = "queried" /\ handled.thetaNum = 0 /\ handled.built

\* C20: on a configuration at pairwise distinct positions inside the domain,
\* a query with theta = 0 for body b takes no node as a far mass, takes one
\* term from each inserted body other than b and none from b, each the
\* softened term of that body, and returns their sum, the direct pairwise sum.
C20_ThetaZeroIsDirectSum ==
  Queried0 =>
    LET bodies == handled.bodies
        b == handled.b
        terms == handled.terms
    IN  /\ \A i \in 1..Len(terms) : ~terms[i].far /\ Len(terms[i].body) = 1
        /\ Len(terms) = Len(bodies) - 1
        /\ {terms[i].body[1] : i \in 1..Len(terms)}
             = {bodies[j] : j \in (1..Len(bodies)) \ {b}}
        /\ \A i \in 1..Len(terms) :
             terms[i].term = DirectTerm(terms[i].body[1], bodies[b].pos)
        /\ handled.acc = VSum([i \in 1..Len(terms) |-> terms[i].term], 1)
        /\ handled.acc = DirectSum(bodies, b)

\* a theta = 0 query of a tree of three bodies with a subdivided child, which
\* has returned an acceleration that is not zero
C20_Witness ==
  /\ Queried0
  /\ Len(handled.bodies) = 3
  /\ handled.depth = 2
  /\ handled.acc # <<0, 0>>

\* every build of a configuration of SpecTree returns
TreeBuilt == pc = "queried" => handled.built

\* a query with the configured theta has taken a node as one far mass and
\* returned something other than the direct sum
FarFieldTaken ==
  /\ pc = "queried" /\ handled.thetaNum = ThetaNum /\ handled.built
  /\ \E i \in 1..Len(handled.terms) : handled.terms[i].far
  /\ handled.acc # DirectSum(handled.bodies, handled.b)


\* ---- properties of a ship that is out of the game
\* GameEngine::isGameOver
isGameOver == \A i \in 1..Len(ships) : ~ships[i].active

\* the transition is the part of step() up to detectCollisions
IsStepBegin == pc = "idle" /\ pc' \in {"collide", "stalled"}

\* ship i is left as it is: where it is, as fast, with its lives, flag,
\* heading and cooldown
ShipRests(i) ==
  /\ ships'[i].pos = ships[i].pos
  /\ ships'[i].vel = ships[i].vel
  /\ ships'[i].lives = ships[i].lives
  /\ ships'[i].active = ships[i].active
  /\ ships'[i].angle = ships[i].angle
  /\ ships'[i].shootCooldown = ships[i].shootCooldown

\* the transition appends a bullet owned by ship i
FiredBy(i) ==
  \E k \in (Len(bullets) + 1)..Len(bullets') : bullets'[k].playerId = i - 1

\* every transition but a reset leaves the inactive ships alone, and the
\* game over once it is over
InactiveShipsRest ==
  /\ Len(ships') = Len(ships)
  /\ \A i \in 1..Len(ships) :
       ~ships[i].active => ShipRests(i) /\ (IsStepBegin => ~FiredBy(i))
  /\ isGameOver => isGameOver'

\* the integration and the detection of a tick have left the inactive ships
\* out: none was given to a build or kicked or drifted, none is in a pair
InactiveShipsLeftOut ==
  JustDetected \/ Integrated =>
    \A i \in 1..Len(ships) :
      ~ships[i].active =>
        /\ \A n \in 1..Len(handled.integration) :
             \A k \in 1..Len(handled.integration[n].ids) :
               handled.integration[n].ids[k] # ships[i].id
        /\ \A n \in 1..Len(collisions) :
             /\ collisions[n].a # Ref("ships", i)
             /\ collisions[n].b # Ref("ships", i)

\* C21: an inactive ship takes no further part until reset(): its position,
\* velocity, lives and active flag stay as they are, it is given to no
\* quadtree build, is in no collision pair, processes no input and fires no
\* bullet; isGameOver(), once true, stays true until reset().
C21_InactiveShipRests ==
  [](InactiveShipsLeftOut) /\ [][IsReset \/ InactiveShipsRest]_vars

\* a tick has been integrated and detected with a ship out of the game whose
\* input asks for thrust and fire, while other bodies were integrated
C21_Witness ==
  /\ JustDetected
  /\ \E i \in 1..Len(ships) :
       ~ships[i].active /\ inputs[i].thrust /\ inputs[i].shoot
  /\ handled.integration[1].ids # <<>>


\* ---- properties of the positions of the bodies that wrap
InDomain(p) == p[1] >= 0 /\ p[1] < WorldWidth /\ p[2] >= 0 /\ p[2] < WorldHeight

\* on the right or the bottom edge, where randomEdgePosition puts a body
OnFarEdge(p) ==
  \/ p[1] = WorldWidth /\ p[2] >= 0 /\ p[2] < WorldHeight
  \/ p[2] = WorldHeight /\ p[1] >= 0 /\ p[1] < WorldWidth

\* the active bodies that wrap
Wrapping(k) ==
  {b \in {World[k][i] : i \in 1..Len(World[k])} : b.active /\ b.wraps}

\* no call is running: the state is the one a step(), a reset() or the
\* constructor has returned in
Returned == pc = "idle"

\* the drift of the tick's integration, once both builds have returned
DriftOf == handled.integration[3].moved

\* the drift has moved every body by its velocity, has wrapped the result
\* for the bodies that wrap and only for them, and the bodies that do not
\* wrap are the black holes
DriftWrapsTheWrapping ==
  Integrated /\ pc = "collide" /\ Len(handled.integration) = 5 =>
    \A n \in 1..Len(DriftOf) :
      LET m == DriftOf[n]
          p == VAdd(m.from, <<MulDt(m.vel[1]), MulDt(m.vel[2])>>)
      IN  /\ m.wraps <=> m.k # "blackHoles"
          /\ m.wraps => m.to = wrapPosition(p, WorldWidth, WorldHeight) /\ InDomain(m.to)
          /\ ~m.wraps => m.to = p

\* outside the integration no black hole is moved
BlackHolesStay ==
  \A i \in 1..Len(blackHoles), j \in 1..Len(blackHoles') :
    blackHoles[i].id = blackHoles'[j].id => blackHoles'[j].pos = blackHoles[i].pos

\* C22 (as stated): after every step() and after reset() every active body
\* that wraps is inside [0,W) x [0,H).
C22_WrappedInside ==
  Returned => \A k \in DOMAIN World : \A b \in Wrapping(k) : InDomain(b.pos)

\* C22 (amended): after every step() and after reset() every active body
\* that wraps is inside [0,W) x [0,H) or is a size-0 asteroid on the right or
\* bottom edge (x = W or y = H); the drift leaves every body that wraps
\* inside [0,W) x [0,H); wrapping is applied only to bodies that wrap, and a
\* black hole is moved by the drift alone, unwrapped.
C22_WrappedOrOnEdge ==
  /\ [](Returned =>
          \A k \in DOMAIN World : \A b \in Wrapping(k) :
            \/ InDomain(b.pos)
            \/ k = "asteroids" /\ b.size = 0 /\ OnFarEdge(b.pos))
  /\ [](DriftWrapsTheWrapping)
  /\ [][IsStepBegin \/ BlackHolesStay]_vars

\* a drift has carried a body that wraps across the boundary, which was
\* wrapped, and has left a black hole outside the domain, unwrapped
C22_Witness ==
  /\ Integrated /\ pc = "collide" /\ Len(handled.integration) = 5
  /\ \E n \in 1..Len(DriftOf) :
       /\ DriftOf[n].wraps
       /\ ~InDomain(VAdd(DriftOf[n].from,
                         <<MulDt(DriftOf[n].vel[1]), MulDt(DriftOf[n].vel[2])>>))
  /\ \E n \in 1..Len(DriftOf) :
       /\ DriftOf[n].k = "blackHoles"
       /\ ~InDomain(DriftOf[n].to)
       /\ DriftOf[n].to # DriftOf[n].from


\* ---- properties of the built tree
\* the bodies the leaves of a subtree hold, leaf by leaf
RECURSIVE LeafBodies(_)
LeafBodies(node) ==
  IF node.isLeaf THEN node.body
  ELSE LeafBodies(node.children[1]) \o LeafBodies(node.children[2])
         \o LeafBodies(node.children[3]) \o LeafBodies(node.children[4])

RECURSIVE MassSum(_, _)
MassSum(bodies, i) == IF i > Len(bodies) THEN 0 ELSE bodies[i].mass + MassSum(bodies, i + 1)

\* a leaf holds at most one body and has no children, an internal node has
\* four children and no body, and every node's totalMass is the sum of the
\* masses of the bodies its subtree holds
RECURSIVE WellFormed(_)
WellFormed(node) ==
  /\ node.totalMass = MassSum(LeafBodies(node), 1)
  /\ IF node.isLeaf
     THEN Len(node.body) <= 1 /\ node.children = <<>>
     ELSE /\ node.body = <<>>
          /\ Len(node.children) = 4
          /\ \A i \in 1..4 : WellFormed(node.children[i])

\* a build over a configuration of SpecTree has returned
Built == pc = "queried" /\ handled.built

\* C23: after QuadTree::build over bodies at pairwise distinct positions
\* every inserted body is held by exactly one leaf, every leaf holds at most
\* one body, every internal node has four children and no body, and every
\* node's totalMass is the sum of the masses of the bodies of its subtree,
\* the root's the sum over all inserted bodies.
C23_TreeWellFormed ==
  Built =>
    LET held == LeafBodies(handled.tree)
    IN  /\ \A j \in 1..Len(handled.bodies) :
             Cardinality({n \in 1..Len(held) : held[n] = handled.bodies[j]}) = 1
        /\ Len(held) = Len(handled.bodies)
        /\ WellFormed(handled.tree)
        /\ handled.tree.totalMass = MassSum(handled.bodies, 1)

\* a tree of three bodies of which two share a quadrant of the root, so that
\* an internal node lies below the root
C23_Witness ==
  /\ Built
  /\ Len(handled.bodies) = 3
  /\ handled.depth = 2
  /\ \E i \in 1..4 : /\ ~handled.tree.children[i].isLeaf
                     /\ Len(LeafBodies(handled.tree.children[i])) = 2


\* ---- termination of a tick
\* C24 (as stated): every tick fully completes: no step() is left in a
\* quadtree build that never returns, two active bodies at one position
\* included.
C24_EveryTickCompletes == pc # "stalled"


\* ---- properties of the minimum-image shift of the detector
\* the detector measures the pair through the periodic boundary: a black-hole
\* pair when its body wraps, any other pair when both bodies wrap
ShiftApplied(q) ==
  IF q.b.k = "blackHoles" THEN BodyA(q).wraps ELSE BodyA(q).wraps /\ BodyB(q).wraps

\* the black-hole pairs of the batch
AccretionPairs == {n \in 1..Len(collisions) : collisions[n].b.k = "blackHoles"}

\* C25 (as stated): the minimum-image shift is applied exactly when both
\* participants wrap; a pair with a black hole is measured by the raw
\* displacement of the stored positions, so no black hole accretes a body
\* through the periodic boundary.
C25_RawForBlackHoles ==
  JustDetected =>
    \A n \in 1..Len(collisions) :
      LET q == collisions[n]
          d2 == Dist2(BodyA(q), BodyB(q), BodyA(q).wraps /\ BodyB(q).wraps)
      IN  q.distance = ISqrt(d2) /\ Within(q, d2)

\* C25 (amended): a pair of two bodies that wrap is measured through the
\* periodic boundary; a pair with a black hole is measured through the
\* periodic boundary too whenever its body wraps, whatever the black hole's
\* flag, so a black hole accretes a wrapping body across the boundary.
C25_ShiftWhenBodyWraps ==
  JustDetected =>
    /\ \A n \in 1..Len(collisions) :
         LET q == collisions[n]
             d2 == Dist2(BodyA(q), BodyB(q), ShiftApplied(q))
         IN  q.distance = ISqrt(d2) /\ Within(q, d2)
    /\ \A q \in Candidates :
         (q.b.k = "blackHoles" /\ BodyA(q).active /\ BodyB(q).active
            /\ Within(q, Dist2(BodyA(q), BodyB(q), BodyA(q).wraps)))
           => {q.a, q.b} \in Detected

\* a black hole has a body in its batch that is within the accretion radius
\* only through the periodic boundary
C25_Witness ==
  /\ JustDetected
  /\ \E n \in AccretionPairs :
       /\ ~Within(collisions[n], Dist2(BodyA(collisions[n]), BodyB(collisions[n]), FALSE))
       /\ Within(collisions[n], Dist2(BodyA(collisions[n]), BodyB(collisions[n]), TRUE))


\* ---- properties of the wave counter
\* the asteroids the purge at the end of the step keeps
KeptAsteroids == RemoveInactive(asteroids)

\* the end of a step starts a wave exactly when the purge leaves no asteroid:
\* the counter goes up by one and asteroidCount + 2 * wave size-0 asteroids,
\* by the new counter, are spawned; otherwise the counter and the kept
\* asteroids are left as they are
WaveStep ==
  IF KeptAsteroids = <<>>
  THEN /\ wave' = wave + 1
       /\ Len(asteroids') = difficulty.asteroidCount + 2 * wave'
       /\ \A i \in 1..Len(asteroids') : asteroids'[i].size = 0 /\ asteroids'[i].active
  ELSE /\ wave' = wave
       /\ asteroids' = KeptAsteroids

InvulnerableKeepLives ==
  \A i \in 1..Len(ships) :
    (i <= Len(ships') /\ ships[i].invulnerable) => ships'[i].lives >= ships[i].lives

\* C27 (as stated): while a ship's invulnerable flag is set its lives never
\* decrease: no pair resolved after the ship was granted invulnerability, in
\* the same batch or in a later tick of the period, costs it a life, so a
\* ship loses at most one life per tick.
C27_InvulnerableKeepsLives == [][IsReset \/ InvulnerableKeepLives]_vars


\* ---- properties of the references a batch holds
\* C28 (as stated): between detection and the resolution of the last pair no
\* collection that a pending pair or the handler's asteroid argument refers
\* into is grown or reallocated, and every reference of a pair denotes the
\* entity that was detected when it is dereferenced.
C28_ReferencesStayValid ==
  pc = "collide" =>
    /\ freed = <<>>
    /\ handled.kind \in HandlerKinds \cup {"skip"} =>
         /\ ~handled.stale
         /\ Len(asteroids) = handled.nAsteroids


\* ---- the trigger of the ships
\* the tick of the trigger specification, in tenths of a second, and the
\* ticks it runs for
TriggerDt == 1

MaxTriggerTicks == 5

\* a game of any mode after some ticks: each ship is in play or has lost its
\* last life, no shot has been fired yet
InitTrigger ==
  \E m \in ModeChoices :
    \E alive \in [1..Len(ResetShips(m, DefaultDifficulty)) -> BOOLEAN] :
      /\ ships = [i \in 1..Len(ResetShips(m, DefaultDifficulty)) |->
                    IF alive[i] THEN ResetShips(m, DefaultDifficulty)[i]
                    ELSE [ResetShips(m, DefaultDifficulty)[i]
                            EXCEPT !.active = FALSE, !.lives = 0]]
      /\ mode = m
      /\ handled = [kind |-> "none", log |-> <<>>,
                    shots |-> [i \in 1..Len(ResetShips(m, DefaultDifficulty)) |-> <<>>],
                    held |-> [i \in 1..Len(ResetShips(m, DefaultDifficulty)) |-> FALSE]]
      /\ pc = "trigger"
      /\ asteroids = <<>>
      /\ asteroidsCap = 0
      /\ bullets = <<>>
      /\ blackHoles = <<>>
      /\ particles = <<>>
      /\ time = 0
      /\ wave = 1
      /\ seed = 1
      /\ rng = 1
      /\ crand = CRandSeed
      /\ currentLevel = 0
      /\ difficulty = DefaultDifficulty
      /\ inputs = <<NoInput, NoInput>>
      /\ nextEntityId = Len(ResetShips(m, DefaultDifficulty))
      /\ collisions = <<>>
      /\ freed = <<>>
      /\ ticks = 0
      /\ calls = 0

\* the part of one GameEngine::step that works the triggers, with a time
\* step of TriggerDt: the ships' Ship::update of updateEntities and then the
\* input loop, for inputs that hold or release the shoot key.  handled keeps
\* for each ship the ticks it has fired in (shots) and whether this tick
\* found the key held with the cooldown still running (held)
TriggerTick ==
  /\ pc = "trigger"
  /\ ticks < MaxTriggerTicks
  /\ \E key \in [1..2 -> BOOLEAN] :
     \E updated \in {[i \in 1..Len(ships) |->
                        IF ships[i].active THEN ShipUpdateBy(ships[i], TriggerDt)
                        ELSE ships[i]]} :
     \E st \in {ApplyInputs([ships |-> updated, bullets |-> bullets,
                              nextId |-> nextEntityId], 1,
                             [i \in 1..2 |-> [NoInput EXCEPT !.shoot = key[i]]],
                             difficulty)} :
       /\ inputs' = [i \in 1..2 |-> [NoInput EXCEPT !.shoot = key[i]]]
       /\ ships' = st.ships
       /\ bullets' = st.bullets
       /\ nextEntityId' = st.nextId
       /\ handled' =
            [kind |-> "trigger", log |-> <<>>,
             shots |-> [i \in 1..Len(ships) |->
                          IF \E k \in (Len(bullets) + 1)..Len(st.bullets) :
                               st.bullets[k].playerId = i - 1
                          THEN Append(handled.shots[i], ticks + 1)
                          ELSE handled.shots[i]],
             held |-> [i \in 1..Len(ships) |->
                         /\ ships[i].active
                         /\ key[i]
                         /\ updated[i].shootCooldown > 0]]
  /\ ticks' = ticks + 1
  /\ UNCHANGED <<asteroids, blackHoles, particles, asteroidsCap, time, wave,
                 seed, rng, crand, mode, currentLevel, difficulty, pc,
                 collisions, freed, calls>>

SpecTrigger == InitTrigger /\ [][TriggerTick]_vars

\* the bullets the transition appends
NewBullets == (Len(bullets) + 1)..Len(bullets')

\* the muzzle of a ship: where step() puts the bullet the ship fires
MuzzleOf(s) == VAdd(s.pos, VScale(Direction(s.angle), s.radius + BulletMuzzle))

\* what a tick does with the trigger of every ship i: at most one bullet of
\* owner id i - 1 is appended; one is appended only if the ship was active,
\* its shoot input is set and its cooldown, after the tick's update, is 0 or
\* less; the ship that fired leaves the tick with the full cooldown, and an
\* active ship that did not with its cooldown one dt lower if it was running
\* and unchanged if not; two shots of a ship are at least
\* ceil(cooldown / dt) ticks apart
TriggerRule ==
  \A i \in 1..Len(ships) :
    /\ Cardinality({k \in NewBullets : bullets'[k].playerId = i - 1}) <= 1
    /\ FiredBy(i) =>
         /\ ships[i].active
         /\ inputs'[i].shoot
         /\ ShipUpdateBy(ships[i], TriggerDt).shootCooldown <= 0
         /\ ships'[i].shootCooldown = ShootCooldownTenths
         /\ Len(handled.shots[i]) > 0 =>
              ticks' - handled.shots[i][Len(handled.shots[i])]
                >= CeilDiv(ShootCooldownTenths, TriggerDt)
    /\ ~FiredBy(i) /\ ships[i].active =>
         ships'[i].shootCooldown =
           IF ships[i].shootCooldown > 0 THEN ships[i].shootCooldown - TriggerDt
           ELSE ships[i].shootCooldown

\* every bullet appended carries the index of a ship, and that ship is the
\* one that fired it: the bullet is at that ship's muzzle and the ship's
\* cooldown has just been set
OwnerIsShooter ==
  \A k \in NewBullets :
    /\ bullets'[k].playerId \in 0..(Len(ships) - 1)
    /\ bullets'[k].pos = MuzzleOf(ships'[bullets'[k].playerId + 1])
    /\ ships'[bullets'[k].playerId + 1].shootCooldown = ShootCooldownTenths
    /\ ships[bullets'[k].playerId + 1].active
    /\ inputs'[bullets'[k].playerId + 1].shoot

\* C29: a ship fires at most one bullet per tick, and only while it is
\* active with its shoot input set and its cooldown at 0 or less; firing
\* sets the cooldown to 0.2 s, so that two consecutive bullets of a ship are
\* at least ceil(0.2 / dt) ticks apart (24 at dt = 1/120 s); every bullet's
\* owner id is the index of the ship that fired it.
C29_TriggerCooldown == [][TriggerRule /\ OwnerIsShooter]_vars

\* a ship has fired twice, the least number of ticks apart, and is now
\* holding the key while its cooldown runs
C29_Witness ==
  \E i \in 1..Len(ships) :
    /\ Len(handled.shots[i]) >= 2
    /\ handled.shots[i][2] - handled.shots[i][1]
         = CeilDiv(ShootCooldownTenths, TriggerDt)
    /\ handled.shots[i][2] - handled.shots[i][1] >= 2
    /\ handled.held[i]


\* ---- the regions of the quadtree
\* the position lies in the closed square of the centre and half-size, both
\* in 1/TreeScale units
InSquare(pos, center, halfSize) ==
  /\ center[1] - halfSize <= pos[1] * TreeScale
  /\ pos[1] * TreeScale <= center[1] + halfSize
  /\ center[2] - halfSize <= pos[2] * TreeScale
  /\ pos[2] * TreeScale <= center[2] + halfSize

\* the position lies in the square of the root node QuadTree::build makes
InRoot(pos) ==
  InSquare(pos, <<(WorldWidth * TreeScale) \div 2, (WorldHeight * TreeScale) \div 2>>,
           (Max(WorldWidth, WorldHeight) * TreeScale) \div 2)

\* every leaf of the tree that holds a body holds one inside its square
RECURSIVE LeavesHold(_)
LeavesHold(node) ==
  IF node.isLeaf
  THEN node.body = <<>> \/ InSquare(node.body[1].pos, node.center, node.halfSize)
  ELSE \A i \in 1..4 : LeavesHold(node.children[i])

\* the builds of the tick's integration, as logged
BuildsOf ==
  IF "integration" \in DOMAIN handled
  THEN {handled.integration[n] : n \in {n \in 1..Len(handled.integration) :
                                          handled.integration[n].op = "build"}}
  ELSE {}

\* C30: every body the integrator inserts into the quadtree lies inside the
\* root node's square (centre (W/2, H/2), half-size max(W, H)/2), and after
\* a build the body each leaf holds lies inside the leaf's square, black
\* holes just spawned or about to leave included.
C30_BodiesInsideRegions ==
  \A e \in BuildsOf :
    /\ \A n \in 1..Len(e.given) : InRoot(e.given[n].pos)
    /\ e.returned => LeavesHold(build(e.given))

=============================================================================
